---------------------------- MODULE Spec2Model ----------------------------
(***************************************************************************)
(* K-Driving-Sim: the GameWorld scheduler (systems, entities, pause,       *)
(* initSystems), the application start-up, the traffic lights, the AI      *)
(* vehicles of TrafficSystem and the longitudinal Vehicle physics.         *)
(*                                                                         *)
(* Numbers of the TypeScript source are reals; the model holds them as     *)
(* integers in a fixed unit that is named where the variable is declared.  *)
(***************************************************************************)
EXTENDS Integers, Sequences, FiniteSets, TLC

VARIABLES
    \* ---- GameWorld (src/src/core/GameWorld.ts) ----
    systems,        \* Map<string, ISystem>: system names in insertion order
    entities,       \* Map<string, IEntity>: entity ids in insertion order
    entityActive,   \* IEntity.active of every entity id
    isPaused,       \* GameWorld.isPaused
    timeScale,      \* GameWorld.timeScale
    gameTime,       \* GameWorld.gameTime, in milliseconds
    \* ---- one call of GameWorld.update, callback by callback ----
    pc,             \* "idle" | "systems" | "entities" | "done"
    sorted,         \* the local `sorted` of update
    idx,            \* position of the running for-loop
    scaledDelta,    \* the local `scaledDelta` of update, in milliseconds
    frameDt,        \* argument deltaTime of the call in progress
    frameScale,     \* timeScale read by the call in progress
    callLog,        \* update callbacks invoked by the call in progress
    lastUpdate,     \* "none" | "skipped" | "ran": how the last call began
    \* ---- GameWorld.initSystems ----
    initPc,         \* "idle" | "awaiting" | "resolved" | "rejected"
    initSorted,     \* the local `sorted` of initSystems
    initIdx,        \* position of the for-loop of initSystems
    initStarted,    \* systems whose init was called, in call order
    initPending,    \* systems whose init promise is still pending
    initDone,       \* systems whose init promise has resolved
    initFailed,     \* the system whose init rejected, or "none"
    \* ---- KDrivingSim start-up (src/src/main.ts) ----
    appPc,          \* "loading" | "engineInit" | "initSystems" | "started" | "failed"
    isRunning,      \* KDrivingSim.isRunning: the render loop was started
    appPaused,      \* KDrivingSim.isPaused
    errorReported,  \* the catch block of the DOMContentLoaded handler ran
    \* ---- TrafficSystem (src/unnamed/part_006) ----
    trafficLights,  \* Map<string, TrafficLight>: id -> [timer (ms), state]
    aiVehicles,     \* Map<string, AIVehicle> in insertion order: records
                    \* [id, x (mm), z (mm), rotation (quarter turns), speed (0.001 km/h)]
    spawnTimer,     \* TrafficSystem.spawnTimer, in milliseconds
    maxAIVehicles,  \* TrafficSystem.maxAIVehicles
    nextAiId,       \* how many AI vehicles were spawned (ids are never reused)
    aiDisposed,     \* ids of the AI vehicles whose dispose() has run
    \* ---- Vehicle (src/unnamed/part_002) ----
    vehSpec,        \* key of the VehicleSpec preset of the vehicle
    vehMesh,        \* this.mesh is not null (spawn was called)
    rpm,            \* state.rpm
    gear,           \* state.gear
    speed,          \* state.speed, in units of 0.0001 km/h
    throttle,       \* state.throttle, in thousandths
    brake,          \* state.brake, in thousandths
    steering,       \* state.steering, in thousandths
    handbrake,      \* state.handbrake
    vehUpdates,     \* number of Vehicle.update calls made since spawn
    posX,           \* state.position.x, in millimetres
    posZ,           \* state.position.z, in millimetres
    yaw,            \* state.rotation.y, in milliradians
    lastDelta,      \* deltaTime of the last Vehicle.update that ran (-1: none yet)
    \* ---- GameWorld: events and the life of entity objects ----
    events,         \* Map<string, EventCallback[]>: event -> callbacks
    emitted,        \* callbacks invoked by the most recent emit, in order
    entityObj,      \* which object holds an id of EntityIds in the registry (0: none)
    disposeLog,     \* dispose calls made by the last removeEntity / dispose
    disposedObjs,   \* entity objects <<id, object>> whose dispose() has run
    gone,           \* entity objects <<id, object>> that left the registry
    \* ---- InputManager (src/src/core/InputManager.ts) ----
    keysPressed,    \* InputManager.keysPressed
    gamepad,        \* navigator.getGamepads()[0]: connected or not, buttons pressed
    inputState,     \* InputManager.state, as far as the vehicle reads it
    heldFrames,     \* for each shift input, the consecutive update calls that saw it held
    \* ---- KDrivingSim.gameLoop ----
    loopLog,        \* the update calls of the last frame callback, in order
    \* ---- KoreaMapLoader.loadRegion (src/unnamed/part_005) ----
    \* each is a function of the call, for the calls in flight on one loader
    loadPc,         \* "idle" | "fetching" | "parsing" | "resolved" | "rejected"
    loadKey,        \* the regionKey of the call
    fetchCount,     \* fetch calls made by the call
    loadResult,     \* "none" | "osm" | "fallback": what the promise resolved with
    loadWarned,     \* console.warn of the catch block ran
    loadFault,      \* "none" | "network" | "status" | "body" | "shape": what failed
    testMap         \* the MapData generateTestMap returned to the call

worldVars == <<systems, entities, entityActive, isPaused, timeScale, gameTime>>
frameVars == <<pc, sorted, idx, scaledDelta, frameDt, frameScale, callLog, lastUpdate>>
initVars  == <<initPc, initSorted, initIdx, initStarted, initPending, initDone, initFailed>>
appVars   == <<appPc, isRunning, appPaused, errorReported>>
aiVars    == <<aiVehicles, spawnTimer, maxAIVehicles, nextAiId, aiDisposed>>
vehVars   == <<vehSpec, vehMesh, rpm, gear, speed, throttle, brake, steering,
               handbrake, vehUpdates>>
simVars   == <<trafficLights, aiVars, vehVars>>
poseVars  == <<posX, posZ, yaw, lastDelta>>
regVars   == <<events, emitted, entityObj, disposeLog, disposedObjs, gone>>
inputVars == <<keysPressed, gamepad, inputState, heldFrames>>
loadVars  == <<loadPc, loadKey, fetchCount, loadResult, loadWarned, loadFault, testMap>>
extVars   == <<poseVars, regVars, inputVars, loopLog, loadVars>>
vars == <<worldVars, frameVars, initVars, appVars, simVars, extVars>>

----------------------------------------------------------------------------
(* Bounds of the model *)

MaxGameTime == 300       \* update is not called once gameTime reached this
MaxEntities == 2         \* entities held by the registry in the world harness
MaxListeners == 2        \* callbacks subscribed to one event
MaxHeldFrames == 3       \* heldFrames stops counting here
MaxLoads == 2            \* loadRegion calls made on one loader

----------------------------------------------------------------------------
(* The systems of the repository and their priorities *)

SystemNames == {"WeatherSystem", "TrafficSystem", "AudioSystem"}

priority(s) ==
    CASE s = "WeatherSystem" -> 10
      [] s = "TrafficSystem" -> 30
      [] s = "AudioSystem"   -> 50

EntityIds == {"e1", "e2"}

Range(f) == {f[i] : i \in DOMAIN f}

Min2(a, b) == IF a < b THEN a ELSE b
Max2(a, b) == IF a > b THEN a ELSE b

\* Array.prototype.sort((a, b) => a.priority - b.priority): stable, ascending
RECURSIVE InsertByPriority(_, _)
InsertByPriority(s, seq) ==
    IF seq = <<>> THEN <<s>>
    ELSE IF priority(seq[Len(seq)]) <= priority(s) THEN Append(seq, s)
    ELSE Append(InsertByPriority(s, SubSeq(seq, 1, Len(seq) - 1)), seq[Len(seq)])

RECURSIVE SortFrom(_, _)
SortFrom(seq, acc) ==
    IF seq = <<>> THEN acc
    ELSE SortFrom(Tail(seq), InsertByPriority(Head(seq), acc))

SortByPriority(seq) == SortFrom(seq, <<>>)

----------------------------------------------------------------------------
(* GameWorld: registries and game state *)

\* Map.set keeps the position of a key that is already present
MapSet(seq, k) == IF k \in Range(seq) THEN seq ELSE Append(seq, k)

registerSystem(s) ==
    /\ pc = "idle"
    /\ systems' = MapSet(systems, s)
    /\ UNCHANGED <<entities, entityActive, isPaused, timeScale, gameTime>>
    /\ UNCHANGED <<frameVars, initVars, appVars, simVars>>
    /\ UNCHANGED extVars

\* the callbacks emit(event) invokes, in subscription order
listeners(event) == IF event \in DOMAIN events THEN events[event] ELSE <<>>

\* the entity object the registry holds under id (ids outside EntityIds
\* belong to one object each)
objOf(id) == IF id \in DOMAIN entityObj THEN entityObj[id] ELSE 1

\* the entity objects the registry holds
registryObjs == {<<entities[i], objOf(entities[i])>> : i \in DOMAIN entities}

\* the objects objs leave the registry in the way `how`
leave(objs, how) ==
    {g \in gone : <<g[1], g[2]>> \notin objs} \cup {<<o[1], o[2], how>> : o \in objs}

\* addEntity(entity): entity is [id, obj, active], obj telling apart the
\* entity objects that carry the same id
addEntity(entity) ==
    /\ pc = "idle"
    /\ entity.id \in Range(entities) \/ Len(entities) < MaxEntities
    /\ entities' = MapSet(entities, entity.id)
    /\ entityActive' = (entity.id :> entity.active) @@ entityActive
    /\ entityObj' = [entityObj EXCEPT ![entity.id] = entity.obj]
    /\ LET replaced == IF entity.id \in Range(entities) /\ objOf(entity.id) # entity.obj
                       THEN {<<entity.id, objOf(entity.id)>>} ELSE {}
           entering == <<entity.id, entity.obj>>
       IN  /\ gone' = {g \in leave(replaced, "addEntity") : <<g[1], g[2]>> # entering}
           /\ disposedObjs' = IF entering \in registryObjs THEN disposedObjs
                              ELSE disposedObjs \ {entering}
    /\ emitted' = listeners("entity:added")
    /\ UNCHANGED <<events, disposeLog>>
    /\ UNCHANGED <<systems, isPaused, timeScale, gameTime>>
    /\ UNCHANGED <<frameVars, initVars, appVars, simVars>>
    /\ UNCHANGED <<poseVars, inputVars, loopLog, loadVars>>

\* calls of entity.dispose() that do nothing
disposeCallsNone(ids, by) == <<>>

\* entity.dispose() called for the ids, in order, by the method `by`
disposeCalls(ids, by) ==
    [i \in 1..Len(ids) |-> [by |-> by, kind |-> "entity", name |-> ids[i], obj |-> objOf(ids[i])]]

\* the entity objects disposed by the calls of a log
disposedBy(log) == {<<log[i].name, log[i].obj>> : i \in {j \in DOMAIN log : log[j].kind = "entity"}}

removeEntity(id) ==
    /\ pc = "idle"
    /\ IF id \in Range(entities)
       THEN /\ disposeLog' = disposeCalls(<<id>>, "removeEntity")
            /\ disposedObjs' = disposedObjs \cup disposedBy(disposeCalls(<<id>>, "removeEntity"))
            /\ entities' = SelectSeq(entities, LAMBDA x : x # id)
            /\ entityActive' = [e \in DOMAIN entityActive \ {id} |-> entityActive[e]]
            /\ entityObj' = [e \in DOMAIN entityObj |-> IF e = id THEN 0 ELSE entityObj[e]]
            /\ gone' = leave({<<id, objOf(id)>>}, "removeEntity")
            /\ emitted' = listeners("entity:removed")
       ELSE UNCHANGED <<disposeLog, disposedObjs, entities, entityActive, entityObj,
                        gone, emitted>>
    /\ UNCHANGED <<events, systems, isPaused, timeScale, gameTime>>
    /\ UNCHANGED <<frameVars, initVars, appVars, simVars>>
    /\ UNCHANGED <<poseVars, inputVars, loopLog, loadVars>>

\* a write of the public field IEntity.active
setActive(e, a) ==
    /\ pc = "idle"
    /\ e \in Range(entities)
    /\ entityActive' = [entityActive EXCEPT ![e] = a]
    /\ UNCHANGED <<systems, entities, isPaused, timeScale, gameTime>>
    /\ UNCHANGED <<frameVars, initVars, appVars, simVars>>
    /\ UNCHANGED extVars

pause ==
    /\ pc = "idle"
    /\ isPaused' = TRUE
    /\ emitted' = listeners("game:paused")
    /\ UNCHANGED <<systems, entities, entityActive, timeScale, gameTime>>
    /\ UNCHANGED <<frameVars, initVars, appVars, simVars>>
    /\ UNCHANGED <<events, entityObj, disposeLog, disposedObjs, gone>>
    /\ UNCHANGED <<poseVars, inputVars, loopLog, loadVars>>

resume ==
    /\ pc = "idle"
    /\ isPaused' = FALSE
    /\ emitted' = listeners("game:resumed")
    /\ UNCHANGED <<systems, entities, entityActive, timeScale, gameTime>>
    /\ UNCHANGED <<frameVars, initVars, appVars, simVars>>
    /\ UNCHANGED <<events, entityObj, disposeLog, disposedObjs, gone>>
    /\ UNCHANGED <<poseVars, inputVars, loopLog, loadVars>>

setTimeScale(scale) ==
    /\ pc = "idle"
    /\ timeScale' = Max2(0, Min2(10, scale))
    /\ UNCHANGED <<systems, entities, entityActive, isPaused, gameTime>>
    /\ UNCHANGED <<frameVars, initVars, appVars, simVars>>
    /\ UNCHANGED extVars

\* on(event, callback)
on(event, callback) ==
    /\ pc = "idle"
    /\ Len(listeners(event)) < MaxListeners
    /\ events' = (event :> Append(listeners(event), callback)) @@ events
    /\ UNCHANGED <<emitted, entityObj, disposeLog, disposedObjs, gone>>
    /\ UNCHANGED <<worldVars, frameVars, initVars, appVars, simVars>>
    /\ UNCHANGED <<poseVars, inputVars, loopLog, loadVars>>

\* callbacks.splice(callbacks.indexOf(callback), 1): the first occurrence goes
RECURSIVE removeFirst(_, _)
removeFirst(seq, x) ==
    IF seq = <<>> THEN <<>>
    ELSE IF Head(seq) = x THEN Tail(seq)
    ELSE <<Head(seq)>> \o removeFirst(Tail(seq), x)

\* off(event, callback)
off(event, callback) ==
    /\ pc = "idle"
    /\ events' = IF event \in DOMAIN events
                 THEN [events EXCEPT ![event] = removeFirst(events[event], callback)]
                 ELSE events
    /\ UNCHANGED <<emitted, entityObj, disposeLog, disposedObjs, gone>>
    /\ UNCHANGED <<worldVars, frameVars, initVars, appVars, simVars>>
    /\ UNCHANGED <<poseVars, inputVars, loopLog, loadVars>>

\* Array.prototype.sort((a, b) => b.priority - a.priority): stable, descending
RECURSIVE InsertByPriorityDesc(_, _)
InsertByPriorityDesc(s, seq) ==
    IF seq = <<>> THEN <<s>>
    ELSE IF priority(seq[Len(seq)]) >= priority(s) THEN Append(seq, s)
    ELSE Append(InsertByPriorityDesc(s, SubSeq(seq, 1, Len(seq) - 1)), seq[Len(seq)])

RECURSIVE SortDescFrom(_, _)
SortDescFrom(seq, acc) ==
    IF seq = <<>> THEN acc
    ELSE SortDescFrom(Tail(seq), InsertByPriorityDesc(Head(seq), acc))

\* dispose walking the systems in the order of initSystems
disposeOrderAscending(seq) == SortByPriority(seq)

\* the order in which dispose walks the systems
disposeOrder(seq) == SortDescFrom(seq, <<>>)

\* system.dispose() called for the systems, in order
systemDisposeCalls(names) ==
    [i \in 1..Len(names) |-> [by |-> "dispose", kind |-> "system", name |-> names[i], obj |-> 0]]

\* GameWorld.dispose; TrafficSystem.dispose, when that system is
\* registered, disposes and forgets its lights and its AI vehicles
dispose ==
    /\ pc = "idle"
    /\ disposeLog' = disposeCalls(entities, "dispose") \o systemDisposeCalls(disposeOrder(systems))
    /\ disposedObjs' = disposedObjs \cup disposedBy(disposeCalls(entities, "dispose"))
    /\ gone' = leave(registryObjs, "dispose")
    /\ entities' = <<>>
    /\ entityActive' = <<>>
    /\ entityObj' = [e \in DOMAIN entityObj |-> 0]
    /\ systems' = <<>>
    /\ events' = <<>>
    /\ IF "TrafficSystem" \in Range(systems)
       THEN /\ trafficLights' = <<>>
            /\ aiVehicles' = <<>>
            /\ aiDisposed' = aiDisposed \cup {aiVehicles[i].id : i \in DOMAIN aiVehicles}
       ELSE UNCHANGED <<trafficLights, aiVehicles, aiDisposed>>
    /\ UNCHANGED <<isPaused, timeScale, gameTime, emitted>>
    /\ UNCHANGED <<spawnTimer, maxAIVehicles, nextAiId, vehVars>>
    /\ UNCHANGED <<frameVars, initVars, appVars>>
    /\ UNCHANGED <<poseVars, inputVars, loopLog, loadVars>>

----------------------------------------------------------------------------
(* GameWorld.update.  The call is synchronous; it is cut at the callbacks  *)
(* it invokes (ISystem.update, IEntity.update), because a callback may     *)
(* call back into the world before the loop goes on.                       *)

\* what a callback may do to the world while the frame is being processed
NoEffect == [op |-> "none", id |-> "none", val |-> FALSE]

PauseEffects ==
    { NoEffect,
      [op |-> "pause",  id |-> "none", val |-> FALSE],
      [op |-> "resume", id |-> "none", val |-> FALSE] }

SystemEffects ==
    PauseEffects \cup
    { [op |-> "setActive", id |-> e, val |-> a] : e \in EntityIds, a \in BOOLEAN }

ApplyEffect(cb) ==
    /\ isPaused' = CASE cb.op = "pause"  -> TRUE
                     [] cb.op = "resume" -> FALSE
                     [] OTHER            -> isPaused
    /\ entityActive' =
          IF cb.op = "setActive" /\ cb.id \in DOMAIN entityActive
          THEN [entityActive EXCEPT ![cb.id] = cb.val]
          ELSE entityActive
    /\ emitted' = CASE cb.op = "pause"  -> listeners("game:paused")
                    [] cb.op = "resume" -> listeners("game:resumed")
                    [] OTHER            -> emitted

\* an update that does not look at the paused flag
updateGateOpen == FALSE

\* the gate at the top of update
updateGate == isPaused

\* `if (entity.active)` of the entity loop
entityDue(e) == entityActive[e]

\* update walking the systems in registration order
updateOrderUnsorted(seq) == seq

\* the order in which update walks the systems
updateOrder(seq) == SortByPriority(seq)

\* update(deltaTime) up to its first callback
updateCall(deltaTime) ==
    /\ pc = "idle"
    /\ IF updateGate
       THEN /\ lastUpdate' = "skipped"
            /\ UNCHANGED <<gameTime, pc, sorted, idx, scaledDelta,
                           frameDt, frameScale, callLog>>
       ELSE /\ gameTime < MaxGameTime
            /\ scaledDelta' = deltaTime * timeScale
            /\ gameTime' = gameTime + deltaTime * timeScale
            /\ sorted' = updateOrder(systems)
            /\ frameDt' = deltaTime
            /\ frameScale' = timeScale
            /\ callLog' = <<>>
            /\ lastUpdate' = "ran"
            /\ idx' = 1
            /\ pc' = IF systems = <<>> THEN "entities" ELSE "systems"
    /\ UNCHANGED <<systems, entities, entityActive, isPaused, timeScale>>

update(deltaTime) ==
    /\ updateCall(deltaTime)
    /\ UNCHANGED <<initVars, appVars, simVars>>
    /\ UNCHANGED extVars

\* system.update(scaledDelta) of the system loop
updateSystem(cb) ==
    /\ pc = "systems"
    /\ callLog' = Append(callLog, [kind |-> "system", name |-> sorted[idx],
                                   dt |-> scaledDelta, active |-> TRUE])
    /\ ApplyEffect(cb)
    /\ IF idx < Len(sorted)
       THEN idx' = idx + 1 /\ pc' = pc
       ELSE idx' = 1 /\ pc' = "entities"
    /\ UNCHANGED <<systems, entities, timeScale, gameTime, sorted, scaledDelta,
                   frameDt, frameScale, lastUpdate>>
    /\ UNCHANGED <<initVars, appVars, simVars>>
    /\ UNCHANGED <<events, entityObj, disposeLog, disposedObjs, gone>>
    /\ UNCHANGED <<poseVars, inputVars, loopLog, loadVars>>

\* the entities the loop has still to look at that pass the active test
DueFrom(i) == {j \in i..Len(entities) : entityDue(entities[j])}

\* entity.update(scaledDelta) of the entity loop, or the end of the loop
updateEntity(cb) ==
    /\ pc = "entities"
    /\ IF DueFrom(idx) = {}
       THEN /\ cb = NoEffect
            /\ pc' = "done"
            /\ UNCHANGED <<idx, callLog, isPaused, entityActive, emitted>>
       ELSE LET j == CHOOSE k \in DueFrom(idx) : \A m \in DueFrom(idx) : k <= m
            IN  /\ callLog' = Append(callLog,
                       [kind |-> "entity", name |-> entities[j],
                        dt |-> scaledDelta, active |-> entityActive[entities[j]]])
                /\ ApplyEffect(cb)
                /\ idx' = j + 1
                /\ pc' = pc
    /\ UNCHANGED <<systems, entities, timeScale, gameTime, sorted, scaledDelta,
                   frameDt, frameScale, lastUpdate>>
    /\ UNCHANGED <<initVars, appVars, simVars>>
    /\ UNCHANGED <<events, entityObj, disposeLog, disposedObjs, gone>>
    /\ UNCHANGED <<poseVars, inputVars, loopLog, loadVars>>

\* update returns to its caller
updateReturn ==
    /\ pc = "done"
    /\ pc' = "idle"
    /\ sorted' = <<>>
    /\ idx' = 0
    /\ scaledDelta' = 0
    /\ frameDt' = 0
    /\ frameScale' = 0
    /\ callLog' = <<>>
    /\ UNCHANGED <<worldVars, lastUpdate, initVars, appVars, simVars>>
    /\ UNCHANGED extVars

----------------------------------------------------------------------------
(* TrafficSystem: the traffic lights *)

MsPerSecond == 1000

\* TRAFFIC_TIMING, in milliseconds
greenDuration  == 30 * MsPerSecond
yellowDuration == 3 * MsPerSecond
redDuration    == 33 * MsPerSecond

NumIntersections == 5

LightId(i, axis) == "light_" \o ToString(i) \o "_" \o axis

\* creation order: light_0_ew, light_0_ns, light_1_ew, ...
LightIds ==
    [k \in 1..(2 * NumIntersections) |->
        LightId((k - 1) \div 2, IF k % 2 = 1 THEN "ew" ELSE "ns")]

\* both lights of an intersection created with the same offset
timerOffsetSame(k) == 0

\* the timerOffset createDefaultTrafficLights passes for light k of LightIds
timerOffset(k) ==
    LET i == (k - 1) \div 2
        ew == (k % 2 = 1)
    IN  IF ew
        THEN (IF i % 2 = 0 THEN 0 ELSE greenDuration + yellowDuration)
        ELSE (IF i % 2 = 0 THEN greenDuration + yellowDuration ELSE 0)

\* a light created in the phase of its offset
createTrafficLightInPhase(offset) ==
    [timer |-> offset,
     state |-> IF offset < greenDuration THEN "green"
               ELSE IF offset < greenDuration + yellowDuration THEN "yellow"
               ELSE "red"]

\* the entity createTrafficLight registers
createTrafficLight(offset) == [timer |-> offset, state |-> "red"]

createDefaultTrafficLights ==
    [id \in Range(LightIds) |->
        LET k == CHOOSE n \in DOMAIN LightIds : LightIds[n] = id
        IN  createTrafficLight(timerOffset(k))]

\* a light that shows red in every phase
phaseStateAlwaysRed(cycleTime) == "red"

\* the state updateTrafficLight derives from the cycle time
phaseState(cycleTime) ==
    IF cycleTime < greenDuration THEN "green"
    ELSE IF cycleTime < greenDuration + yellowDuration THEN "yellow"
    ELSE "red"

\* an update that keeps the timer inside one cycle
updateTrafficLightWrapping(light, deltaTime) ==
    LET cycleDuration == greenDuration + yellowDuration + redDuration
        cycleTime == (light.timer + deltaTime) % cycleDuration
    IN  [timer |-> cycleTime, state |-> phaseState(cycleTime)]

updateTrafficLight(light, deltaTime) ==
    LET timer == light.timer + deltaTime
        cycleDuration == greenDuration + yellowDuration + redDuration
        cycleTime == timer % cycleDuration
    IN  [timer |-> timer, state |-> phaseState(cycleTime)]

RECURSIVE MapSetAll(_, _)
MapSetAll(seq, ks) ==
    IF ks = <<>> THEN seq ELSE MapSetAll(MapSet(seq, Head(ks)), Tail(ks))

\* an init that adds no entity
initEntitiesNone(s) == <<>>

\* what the synchronous body of system.init(world) adds to the registry
initEntities(s) == IF s = "TrafficSystem" THEN LightIds ELSE <<>>

----------------------------------------------------------------------------
(* GameWorld.initSystems: an async function, cut at its awaits *)

\* initSystems walking the systems in registration order
initOrderUnsorted(seq) == seq

\* the order in which initSystems walks the systems
initOrder(seq) == SortByPriority(seq)

\* system.init(this) is called: its body runs, its promise is pending
initStart(s, started, pending) ==
    /\ initStarted' = Append(started, s)
    /\ initPending' = pending \cup {s}
    /\ entities' = MapSetAll(entities, initEntities(s))
    /\ entityActive' = [e \in Range(MapSetAll(entities, initEntities(s))) |->
                          IF e \in DOMAIN entityActive THEN entityActive[e] ELSE TRUE]
    /\ trafficLights' = IF s = "TrafficSystem"
                        THEN createDefaultTrafficLights
                        ELSE trafficLights

\* initSystems() of a world whose registry is sys, up to its first await
initSystemsCall(sys) ==
    /\ initPc = "idle"
    /\ initSorted' = initOrder(sys)
    /\ initDone' = initDone
    /\ initFailed' = initFailed
    /\ IF sys = <<>>
       THEN /\ initPc' = "resolved"
            /\ initIdx' = 0
            /\ UNCHANGED <<initStarted, initPending, entities, entityActive, trafficLights>>
       ELSE /\ initPc' = "awaiting"
            /\ initIdx' = 1
            /\ initStart(initOrder(sys)[1], initStarted, initPending)

\* a loop that swallows the rejection and goes on
rejectionSwallowed == FALSE

\* what the rejection of the awaited init promise does to the loop:
\* TRUE when initSystems stops and rejects with the failure
rejectionPropagates == TRUE

\* the awaited promise settles: the loop goes on, or initSystems settles
initSettle(ok) ==
    /\ initPc = "awaiting"
    /\ LET s == initSorted[initIdx] IN
       /\ s \in initPending
       /\ initDone' = IF ok THEN initDone \cup {s} ELSE initDone
       /\ initFailed' = IF ok THEN initFailed ELSE s
       /\ initSorted' = initSorted
       /\ IF ~ok /\ rejectionPropagates
          THEN /\ initPc' = "rejected"
               /\ initPending' = initPending \ {s}
               /\ UNCHANGED <<initIdx, initStarted, entities, entityActive, trafficLights>>
          ELSE IF initIdx < Len(initSorted)
          THEN /\ initPc' = "awaiting"
               /\ initIdx' = initIdx + 1
               /\ initStart(initSorted[initIdx + 1], initStarted, initPending \ {s})
          ELSE /\ initPc' = "resolved"
               /\ initPending' = initPending \ {s}
               /\ UNCHANGED <<initIdx, initStarted, entities, entityActive, trafficLights>>

initSystems ==
    /\ initSystemsCall(systems)
    /\ UNCHANGED <<systems, isPaused, timeScale, gameTime, frameVars, appVars, aiVars, vehVars>>
    /\ UNCHANGED extVars

initResolve ==
    /\ initSettle(TRUE)
    /\ UNCHANGED <<systems, isPaused, timeScale, gameTime, frameVars, appVars, aiVars, vehVars>>
    /\ UNCHANGED extVars

initReject ==
    /\ initSettle(FALSE)
    /\ UNCHANGED <<systems, isPaused, timeScale, gameTime, frameVars, appVars, aiVars, vehVars>>
    /\ UNCHANGED extVars

----------------------------------------------------------------------------
(* The world harness: any caller of the GameWorld API *)

DeltaTimes == {0, 100}            \* milliseconds
ScaleInputs == {-1, 1, 2, 11}

InitWorld ==
    /\ systems = <<>>
    /\ entities = <<>>
    /\ entityActive = <<>>
    /\ isPaused = FALSE
    /\ timeScale = 1
    /\ gameTime = 0

InitFrame ==
    /\ pc = "idle"
    /\ sorted = <<>>
    /\ idx = 0
    /\ scaledDelta = 0
    /\ frameDt = 0
    /\ frameScale = 0
    /\ callLog = <<>>
    /\ lastUpdate = "none"

InitInit ==
    /\ initPc = "idle"
    /\ initSorted = <<>>
    /\ initIdx = 0
    /\ initStarted = <<>>
    /\ initPending = {}
    /\ initDone = {}
    /\ initFailed = "none"

InitApp ==
    /\ appPc = "loading"
    /\ isRunning = FALSE
    /\ appPaused = FALSE
    /\ errorReported = FALSE

PresetKeys == {"hyundai-sonata", "kia-k5", "genesis-g80", "hyundai-avante", "kia-ev6"}

\* KOREAN_VEHICLES
VehicleSpec(k) ==
    CASE k = "hyundai-sonata" ->
           [mass |-> 1515, wheelBase |-> 2840, maxTorque |-> 179,
            maxRPM |-> 6500, idleRPM |-> 800,
            gearRatios |-> <<-3272, 4212, 2637, 1800, 1386, 1000, 772>>,
            finalDriveRatio |-> 3510, auto |-> TRUE, tireRadius |-> 340,
            dragCoefficient |-> 270, frontalArea |-> 2250]
      [] k = "kia-k5" ->
           [mass |-> 1475, wheelBase |-> 2850, maxTorque |-> 179,
            maxRPM |-> 6500, idleRPM |-> 800,
            gearRatios |-> <<-3272, 4212, 2637, 1800, 1386, 1000, 772>>,
            finalDriveRatio |-> 3510, auto |-> TRUE, tireRadius |-> 340,
            dragCoefficient |-> 280, frontalArea |-> 2230]
      [] k = "genesis-g80" ->
           [mass |-> 1945, wheelBase |-> 3010, maxTorque |-> 422,
            maxRPM |-> 6000, idleRPM |-> 750,
            gearRatios |-> <<-3167, 4651, 2831, 1842, 1386, 1000, 772, 635>>,
            finalDriveRatio |-> 3153, auto |-> TRUE, tireRadius |-> 355,
            dragCoefficient |-> 260, frontalArea |-> 2420]
      [] k = "hyundai-avante" ->
           [mass |-> 1280, wheelBase |-> 2720, maxTorque |-> 144,
            maxRPM |-> 6300, idleRPM |-> 800,
            gearRatios |-> <<-3583, 3929, 2188, 1433, 1021, 770, 651>>,
            finalDriveRatio |-> 3739, auto |-> TRUE, tireRadius |-> 325,
            dragCoefficient |-> 280, frontalArea |-> 2120]
      [] k = "kia-ev6" ->
           [mass |-> 2090, wheelBase |-> 2900, maxTorque |-> 350,
            maxRPM |-> 10000, idleRPM |-> 0,
            gearRatios |-> <<1000>>,
            finalDriveRatio |-> 1000, auto |-> TRUE, tireRadius |-> 360,
            dragCoefficient |-> 280, frontalArea |-> 2380]

InitTraffic ==
    /\ trafficLights = <<>>
    /\ aiVehicles = <<>>
    /\ spawnTimer = 0
    /\ maxAIVehicles = 20
    /\ nextAiId = 0
    /\ aiDisposed = {}

InputKeys == {"KeyW", "KeyS", "KeyE", "KeyQ"}
\* the keys of KOREA_REGIONS
KOREA_REGIONS ==
    {"seoul-gangnam", "seoul-jamsil", "seoul-hongdae", "seoul-yeouido",
     "seoul-gwanghwamun", "yongin-suji", "yongin-giheung", "yongin-cheoin",
     "yongin-everland", "busan-haeundae", "incheon-songdo", "daejeon-dunsan"}

LoadIds == 1..MaxLoads

\* InputManager.createDefaultState
createDefaultState ==
    [throttle |-> 0, brake |-> 0, steering |-> 0, handbrake |-> FALSE,
     shiftUp |-> FALSE, shiftDown |-> FALSE]

\* no test map was generated
noMap == [region |-> "", roads |-> <<>>, buildings |-> <<>>]

InitExt ==
    /\ posX = 0 /\ posZ = 0 /\ yaw = 0
    /\ lastDelta = -1
    /\ events = <<>>
    /\ emitted = <<>>
    /\ entityObj = [e \in EntityIds |-> 0]
    /\ disposeLog = <<>>
    /\ disposedObjs = {}
    /\ gone = {}
    /\ keysPressed = {}
    /\ gamepad = [connected |-> FALSE, pressed |-> {}]
    /\ inputState = createDefaultState
    /\ heldFrames = [shiftUp |-> 0, shiftDown |-> 0]
    /\ loopLog = <<>>
    /\ loadPc = [c \in LoadIds |-> "idle"]
    /\ loadKey = [c \in LoadIds |-> "none"]
    /\ fetchCount = [c \in LoadIds |-> 0]
    /\ loadResult = [c \in LoadIds |-> "none"]
    /\ loadWarned = [c \in LoadIds |-> FALSE]
    /\ loadFault = [c \in LoadIds |-> "none"]
    /\ testMap = [c \in LoadIds |-> noMap]

InitVehicle(k) ==
    /\ vehSpec = k
    /\ vehMesh = FALSE
    /\ rpm = VehicleSpec(k).idleRPM
    /\ gear = 1
    /\ speed = 0
    /\ throttle = 0
    /\ brake = 0
    /\ steering = 0
    /\ handbrake = FALSE
    /\ vehUpdates = 0

Init == InitWorld /\ InitFrame /\ InitInit /\ InitApp /\ InitTraffic
        /\ InitVehicle("hyundai-sonata") /\ InitExt

Next ==
    \/ \E s \in SystemNames : registerSystem(s)
    \/ \E e \in EntityIds, a \in BOOLEAN : addEntity([id |-> e, obj |-> 1, active |-> a])
    \/ \E e \in EntityIds, a \in BOOLEAN : setActive(e, a)
    \/ pause
    \/ resume
    \/ \E scale \in ScaleInputs : setTimeScale(scale)
    \/ \E dt \in DeltaTimes : update(dt)
    \/ \E cb \in SystemEffects : updateSystem(cb)
    \/ \E cb \in PauseEffects : updateEntity(cb)
    \/ updateReturn

Spec == Init /\ [][Next]_vars

(* The initSystems harness: registration in any order, one initSystems call *)

NextInit ==
    \/ \E s \in SystemNames : registerSystem(s)
    \/ initSystems
    \/ initResolve
    \/ initReject

SpecInit == Init /\ [][NextInit]_vars

----------------------------------------------------------------------------
(* Vehicle: the longitudinal physics of src/unnamed/part_002.  Ratios,     *)
(* coefficients and pedal positions are held in thousandths, lengths in    *)
(* millimetres, forces in 0.01 N, torques in 0.01 N m, times in            *)
(* milliseconds and speeds in 0.0001 km/h (36 units are 1 mm/s).           *)

spec == VehicleSpec(vehSpec)

\* this.state, as far as the physics reads and writes it
state ==
    [rpm |-> rpm, gear |-> gear, speed |-> speed, throttle |-> throttle,
     brake |-> brake, steering |-> steering, handbrake |-> handbrake,
     posX |-> posX, posZ |-> posZ, yaw |-> yaw]

\* this.spec.gearRatios[g] || 1  (the array is indexed from 0)
gearRatioAt(g) ==
    IF g + 1 \in DOMAIN spec.gearRatios /\ spec.gearRatios[g + 1] # 0
    THEN spec.gearRatios[g + 1]
    ELSE 1000

\* gearRatio * finalDriveRatio, in thousandths
driveRatio(g) == (gearRatioAt(g) * spec.finalDriveRatio) \div 1000

\* calculateEngineTorque in the state s, in 0.01 N m
calculateEngineTorque(s) ==
    LET rpmRatio == (s.rpm * 1000) \div spec.maxRPM
        torqueMultiplier ==
            IF rpmRatio < 300 THEN 600 + (rpmRatio * 13) \div 10
            ELSE IF rpmRatio < 700 THEN 1000
            ELSE 1000 - ((rpmRatio - 700) * 15) \div 10
    IN  (((spec.maxTorque * torqueMultiplier) \div 10) * s.throttle) \div 1000

\* calculateWheelTorque in the state s, in 0.01 N m
calculateWheelTorque(s, engineTorque) == (engineTorque * driveRatio(s.gear)) \div 1000

\* calculateDragForce in the state s, in 0.01 N
calculateDragForce(s) ==
    LET speedDm == (s.speed \div 36) \div 100          \* dm/s
        k == (((1225 * spec.dragCoefficient) \div 2) * spec.frontalArea) \div 1000000
    IN  (k * speedDm * speedDm) \div 1000

\* a brake force of the opposite sign
brakeForceReversed(s) == 0 - (s.brake * spec.mass * 784) \div 1000

\* this.state.brake * this.spec.mass * 9.8 * 0.8, in N
brakeForce(s) == (s.brake * spec.mass * 784) \div 1000

\* the speed (mm/s) update() integrates over deltaTime from the state s
newSpeedMs(s, deltaTime) ==
    LET wheelTorque == calculateWheelTorque(s, calculateEngineTorque(s))
        tractionForce == (wheelTorque * 1000) \div spec.tireRadius
        netForce == tractionForce - calculateDragForce(s) - brakeForce(s)
        acceleration == (netForce * 10) \div spec.mass      \* mm/s^2
        speedMs == s.speed \div 36
    IN  Max2(0, speedMs + (acceleration * deltaTime) \div 1000)

\* Math.PI, in thousandths
PiMilli == 3142

\* Math.sin of an angle in milliradians, in thousandths (Bhaskara's rational
\* approximation on each half turn; exact at 0, at a quarter and at a half turn)
sinMilli(a) ==
    LET t == a % (2 * PiMilli)
        h == IF t < PiMilli THEN t ELSE t - PiMilli
        p == h * (PiMilli - h)
        m == (16 * p) \div ((5 * PiMilli * PiMilli - 4 * p) \div 1000)
    IN  IF t < PiMilli THEN m ELSE -m

\* Math.cos of an angle in milliradians, in thousandths
cosMilli(a) == sinMilli(a + PiMilli \div 2)

\* a clamp that forgets the idle floor
clampRPMNoFloor(calculatedRPM) == Min2(spec.maxRPM, calculatedRPM)

\* Math.max(idleRPM, Math.min(maxRPM, calculatedRPM))
clampRPM(calculatedRPM) == Max2(spec.idleRPM, Min2(spec.maxRPM, calculatedRPM))

\* updateRPM at the speed speedMs (mm/s) in gear g
updateRPM(speedMs, g) ==
    LET circumference == (6283 * spec.tireRadius) \div 1000      \* mm
        wheelRPM == (speedMs * 6000) \div circumference          \* 0.01 rpm
        calculatedRPM == ((wheelRPM \div 10) * driveRatio(g)) \div 10000
    IN  clampRPM(calculatedRPM)

\* an autoShift that goes straight to the top or to the first gear
autoShiftJumping(r, g) ==
    LET maxGear == Len(spec.gearRatios) - 1
    IN  IF r * 100 > spec.maxRPM * 85 /\ g < maxGear THEN maxGear
        ELSE IF r * 10 < spec.maxRPM * 3 /\ g > 1 THEN 1
        ELSE g

\* autoShift at the engine speed r in gear g
autoShift(r, g) ==
    LET maxGear == Len(spec.gearRatios) - 1
    IN  IF r * 100 > spec.maxRPM * 85 /\ g < maxGear THEN g + 1
        ELSE IF r * 10 < spec.maxRPM * 3 /\ g > 1 THEN g - 1
        ELSE g

\* an update that shifts on the engine speed of the frame before
updateStateStaleShift(s, deltaTime) ==
    LET v == newSpeedMs(s, deltaTime)
    IN  [s EXCEPT !.speed = v * 36,
                  !.rpm = updateRPM(v, s.gear),
                  !.gear = autoShift(s.rpm, s.gear)]

\* the state update(deltaTime) leaves when the mesh exists
updateState(s, deltaTime) ==
    LET v == newSpeedMs(s, deltaTime)
        r == updateRPM(v, s.gear)
        steeringAngle == (s.steering * PiMilli) \div 6000           \* mrad
        forwardX == sinMilli(s.yaw)
        forwardZ == cosMilli(s.yaw)
        turnRate == (steeringAngle * v) \div spec.wheelBase        \* mrad/s
    IN  [s EXCEPT !.speed = v * 36,
                  !.rpm = r,
                  !.gear = IF spec.auto THEN autoShift(r, s.gear) ELSE s.gear,
                  !.posX = s.posX + (((forwardX * v) \div 1000) * deltaTime) \div 1000,
                  !.posZ = s.posZ + (((forwardZ * v) \div 1000) * deltaTime) \div 1000,
                  !.yaw = IF v * 36 > 10000
                          THEN s.yaw + (turnRate * deltaTime) \div 1000
                          ELSE s.yaw]

\* a shiftUp that wraps from the top gear to gear 0
shiftUpGearWrapping(g) == (g + 1) % Len(spec.gearRatios)

\* the gear shiftUp() leaves
shiftUpGear(g) == IF g < Len(spec.gearRatios) - 1 THEN g + 1 ELSE g

\* a shiftDown without a floor
shiftDownGearUnfloored(g) == g - 1

\* the gear shiftDown() leaves
shiftDownGear(g) == IF g > 0 THEN g - 1 ELSE g

\* Math.max(lo, Math.min(hi, value))
clamp(lo, hi, value) == Max2(lo, Min2(hi, value))

\* this.state = s
setState(s) ==
    /\ rpm' = s.rpm
    /\ gear' = s.gear
    /\ speed' = s.speed
    /\ throttle' = s.throttle
    /\ brake' = s.brake
    /\ steering' = s.steering
    /\ handbrake' = s.handbrake
    /\ posX' = s.posX
    /\ posZ' = s.posZ
    /\ yaw' = s.yaw

MaxVehicleUpdates == 2       \* Vehicle.update calls of one behaviour

spawn ==
    /\ ~vehMesh
    /\ vehMesh' = TRUE
    /\ UNCHANGED <<vehSpec, rpm, gear, speed, throttle, brake, steering,
                   handbrake, vehUpdates>>
    /\ UNCHANGED <<worldVars, frameVars, initVars, appVars, trafficLights, aiVars>>
    /\ UNCHANGED extVars

vehicleUpdate(deltaTime) ==
    /\ IF ~vehMesh
       THEN UNCHANGED <<rpm, gear, speed, throttle, brake, steering,
                        handbrake, vehUpdates, poseVars>>
       ELSE /\ vehUpdates' = vehUpdates + 1
            /\ lastDelta' = deltaTime
            /\ setState(updateState(state, deltaTime))
    /\ UNCHANGED <<vehSpec, vehMesh>>
    /\ UNCHANGED <<worldVars, frameVars, initVars, appVars, trafficLights, aiVars>>
    /\ UNCHANGED <<regVars, inputVars, loopLog, loadVars>>

setThrottle(value) ==
    /\ throttle' = clamp(0, 1000, value)
    /\ UNCHANGED <<vehSpec, vehMesh, rpm, gear, speed, brake, steering,
                   handbrake, vehUpdates>>
    /\ UNCHANGED <<worldVars, frameVars, initVars, appVars, trafficLights, aiVars>>
    /\ UNCHANGED extVars

setBrake(value) ==
    /\ brake' = clamp(0, 1000, value)
    /\ UNCHANGED <<vehSpec, vehMesh, rpm, gear, speed, throttle, steering,
                   handbrake, vehUpdates>>
    /\ UNCHANGED <<worldVars, frameVars, initVars, appVars, trafficLights, aiVars>>
    /\ UNCHANGED extVars

setSteering(value) ==
    /\ steering' = clamp(-1000, 1000, value)
    /\ UNCHANGED <<vehSpec, vehMesh, rpm, gear, speed, throttle, brake,
                   handbrake, vehUpdates>>
    /\ UNCHANGED <<worldVars, frameVars, initVars, appVars, trafficLights, aiVars>>
    /\ UNCHANGED extVars

setHandbrake(value) ==
    /\ handbrake' = value
    /\ UNCHANGED <<vehSpec, vehMesh, rpm, gear, speed, throttle, brake,
                   steering, vehUpdates>>
    /\ UNCHANGED <<worldVars, frameVars, initVars, appVars, trafficLights, aiVars>>
    /\ UNCHANGED extVars

shiftUp ==
    /\ gear' = shiftUpGear(gear)
    /\ UNCHANGED <<vehSpec, vehMesh, rpm, speed, throttle, brake, steering,
                   handbrake, vehUpdates>>
    /\ UNCHANGED <<worldVars, frameVars, initVars, appVars, trafficLights, aiVars>>
    /\ UNCHANGED extVars

shiftDown ==
    /\ gear' = shiftDownGear(gear)
    /\ UNCHANGED <<vehSpec, vehMesh, rpm, speed, throttle, brake, steering,
                   handbrake, vehUpdates>>
    /\ UNCHANGED <<worldVars, frameVars, initVars, appVars, trafficLights, aiVars>>
    /\ UNCHANGED extVars

----------------------------------------------------------------------------
(* KDrivingSim: the DOMContentLoaded handler, start and the frame callback *)

MainSystems == <<"WeatherSystem", "TrafficSystem", "AudioSystem">>

MaxFrameDelta == 100     \* Math.min(..., 0.1), in milliseconds

\* catch (error) { console.error(...); loading.innerHTML = ... }
startupCatch ==
    /\ appPc' = "failed"
    /\ errorReported' = TRUE
    /\ UNCHANGED <<isRunning, appPaused>>

\* the handler up to `await this.engine.init()`
domContentLoaded(canvasFound) ==
    /\ appPc = "loading"
    /\ IF canvasFound
       THEN appPc' = "engineInit" /\ UNCHANGED <<isRunning, appPaused, errorReported>>
       ELSE startupCatch
    /\ UNCHANGED <<worldVars, frameVars, initVars, simVars>>
    /\ UNCHANGED extVars

\* engine.init() settles; on success the world is created, the three
\* systems are registered and initSystems is called
engineInitSettle(ok) ==
    /\ appPc = "engineInit"
    /\ IF ok
       THEN /\ systems' = MapSetAll(systems, MainSystems)
            /\ initSystemsCall(MapSetAll(systems, MainSystems))
            /\ appPc' = "initSystems"
            /\ UNCHANGED <<isRunning, appPaused, errorReported>>
       ELSE /\ startupCatch
            /\ UNCHANGED <<systems, entities, entityActive, initVars, trafficLights>>
    /\ UNCHANGED <<isPaused, timeScale, gameTime, frameVars, aiVars, vehVars>>
    /\ UNCHANGED extVars

\* an init promise settles while app.init awaits initSystems; when
\* initSystems resolves the rest of app.init runs (loadMap, spawnVehicle,
\* in which the player's vehicle is spawned) and then app.start()
appInitSettle(ok, restOk) ==
    /\ appPc = "initSystems"
    /\ initSettle(ok)
    /\ CASE initPc' = "awaiting" -> restOk /\ UNCHANGED <<appVars, vehMesh>>
         [] initPc' = "rejected" -> restOk /\ startupCatch /\ UNCHANGED vehMesh
         [] initPc' = "resolved" ->
              IF restOk
              THEN /\ vehMesh' = TRUE
                   /\ isRunning' = TRUE
                   /\ appPc' = "started"
                   /\ UNCHANGED <<appPaused, errorReported>>
              ELSE startupCatch /\ UNCHANGED vehMesh
    /\ UNCHANGED <<vehSpec, rpm, gear, speed, throttle, brake, steering,
                   handbrake, vehUpdates>>
    /\ UNCHANGED <<systems, isPaused, timeScale, gameTime, frameVars, aiVars>>
    /\ UNCHANGED extVars

\* keydown of KeyP or Escape
togglePause ==
    /\ appPc = "started"
    /\ pc = "idle"
    /\ appPaused' = ~appPaused
    /\ isPaused' = ~appPaused
    /\ UNCHANGED <<appPc, isRunning, errorReported>>
    /\ UNCHANGED <<systems, entities, entityActive, timeScale, gameTime>>
    /\ UNCHANGED <<frameVars, initVars, simVars>>
    /\ UNCHANGED extVars

(* InputManager.  A handler runs to completion: an event is not delivered
   inside a GameWorld.update call. *)

keyMap ==
    [throttle |-> {"KeyW", "ArrowUp"}, brake |-> {"KeyS", "ArrowDown"},
     steerLeft |-> {"KeyA", "ArrowLeft"}, steerRight |-> {"KeyD", "ArrowRight"},
     handbrake |-> {"Space"},
     shiftUp |-> {"KeyE", "ShiftLeft"}, shiftDown |-> {"KeyQ", "ControlLeft"}]

isAnyKeyPressed(keys) == keys \cap keysPressed # {}

\* the state updateKeyboardInput leaves
updateKeyboardInput(s) ==
    [s EXCEPT !.throttle = IF isAnyKeyPressed(keyMap.throttle) THEN 1000 ELSE 0,
              !.brake = IF isAnyKeyPressed(keyMap.brake) THEN 1000 ELSE 0,
              !.steering = (IF isAnyKeyPressed(keyMap.steerLeft) THEN -1000 ELSE 0)
                           + (IF isAnyKeyPressed(keyMap.steerRight) THEN 1000 ELSE 0),
              !.handbrake = isAnyKeyPressed(keyMap.handbrake),
              !.shiftUp = isAnyKeyPressed(keyMap.shiftUp),
              !.shiftDown = isAnyKeyPressed(keyMap.shiftDown)]

\* the state updateGamepadInput leaves; the stick rests inside its dead zone
\* and a trigger is either released or fully pressed
updateGamepadInput(s) ==
    IF ~gamepad.connected
    THEN s
    ELSE [s EXCEPT !.throttle = IF 7 \in gamepad.pressed THEN 1000 ELSE 0,
                   !.brake = IF 6 \in gamepad.pressed THEN 1000 ELSE 0,
                   !.handbrake = 0 \in gamepad.pressed,
                   !.shiftUp = 5 \in gamepad.pressed,
                   !.shiftDown = 4 \in gamepad.pressed]

\* what the keys and buttons held down amount to, before the one-shot step
polledInput == updateGamepadInput(updateKeyboardInput(inputState))

\* the state InputManager.update leaves
updatedInput ==
    [polledInput EXCEPT !.shiftUp = polledInput.shiftUp /\ ~inputState.shiftUp,
                        !.shiftDown = polledInput.shiftDown /\ ~inputState.shiftDown]

countHeld(held, n) == IF held THEN Min2(n + 1, MaxHeldFrames) ELSE 0

\* the assignments of InputManager.update
inputUpdateBody ==
    /\ inputState' = updatedInput
    /\ heldFrames' = [shiftUp |-> countHeld(polledInput.shiftUp, heldFrames.shiftUp),
                      shiftDown |-> countHeld(polledInput.shiftDown, heldFrames.shiftDown)]
    /\ UNCHANGED <<keysPressed, gamepad>>

onKeyDown(code) ==
    /\ pc = "idle"
    /\ keysPressed' = keysPressed \cup {code}
    /\ UNCHANGED <<gamepad, inputState, heldFrames>>
    /\ UNCHANGED <<worldVars, frameVars, initVars, appVars, simVars>>
    /\ UNCHANGED <<poseVars, regVars, loopLog, loadVars>>

onKeyUp(code) ==
    /\ pc = "idle"
    /\ keysPressed' = keysPressed \ {code}
    /\ UNCHANGED <<gamepad, inputState, heldFrames>>
    /\ UNCHANGED <<worldVars, frameVars, initVars, appVars, simVars>>
    /\ UNCHANGED <<poseVars, regVars, loopLog, loadVars>>

\* the browser reports the pad gp as navigator.getGamepads()[0]
gamepadChanged(gp) ==
    /\ pc = "idle"
    /\ gamepad' = gp
    /\ UNCHANGED <<keysPressed, inputState, heldFrames>>
    /\ UNCHANGED <<worldVars, frameVars, initVars, appVars, simVars>>
    /\ UNCHANGED <<poseVars, regVars, loopLog, loadVars>>

\* InputManager.update
inputUpdate ==
    /\ inputUpdateBody
    /\ UNCHANGED <<worldVars, frameVars, initVars, appVars, simVars>>
    /\ UNCHANGED <<poseVars, regVars, loopLog, loadVars>>

\* the vehicle part of the frame: the input is handed to the vehicle,
\* which is then updated
driveVehicle(input, deltaTime) ==
    LET s1 == [state EXCEPT !.throttle = clamp(0, 1000, input.throttle),
                            !.brake = clamp(0, 1000, input.brake),
                            !.steering = clamp(-1000, 1000, input.steering),
                            !.handbrake = input.handbrake]
        s2 == IF input.shiftUp THEN [s1 EXCEPT !.gear = shiftUpGear(s1.gear)] ELSE s1
        s3 == IF input.shiftDown THEN [s2 EXCEPT !.gear = shiftDownGear(s2.gear)] ELSE s2
    IN  /\ setState(updateState(s3, deltaTime))
        /\ vehUpdates' = vehUpdates + 1
        /\ lastDelta' = deltaTime

\* a frame step that is not capped
clampDeltaNone(elapsed) == elapsed

\* Math.min((now - this.lastTime) / 1000, 0.1), in milliseconds
clampDelta(elapsed) == Min2(elapsed, MaxFrameDelta)

\* the render-loop callback; elapsed is now - lastTime in milliseconds
gameLoop(elapsed) ==
    /\ isRunning
    /\ pc = "idle"
    /\ IF appPaused
       THEN /\ loopLog' = <<>>
            /\ UNCHANGED <<worldVars, frameVars, rpm, gear, speed, throttle,
                           brake, steering, handbrake, vehUpdates, poseVars,
                           inputVars>>
       ELSE LET deltaTime == clampDelta(elapsed)
                vehicleCalls == IF vehMesh
                                THEN <<[call |-> "vehicle.update", dt |-> deltaTime]>>
                                ELSE <<>>
            IN  /\ inputUpdateBody
                /\ IF vehMesh
                   THEN driveVehicle(updatedInput, deltaTime)
                   ELSE UNCHANGED <<rpm, gear, speed, throttle, brake, steering,
                                    handbrake, vehUpdates, poseVars>>
                /\ updateCall(deltaTime)
                /\ loopLog' = vehicleCalls \o <<[call |-> "world.update", dt |-> deltaTime]>>
    /\ UNCHANGED <<initVars, appVars, trafficLights, aiVars, vehSpec, vehMesh>>
    /\ UNCHANGED <<regVars, loadVars>>

Elapsed == {50, 100, 5000}
AppKeys == {"KeyW", "KeyE"}

NextApp ==
    \/ \E canvasFound \in BOOLEAN : domContentLoaded(canvasFound)
    \/ \E ok \in BOOLEAN : engineInitSettle(ok)
    \/ \E ok \in BOOLEAN, restOk \in BOOLEAN : appInitSettle(ok, restOk)
    \/ togglePause
    \/ \E code \in AppKeys : onKeyDown(code)
    \/ \E code \in AppKeys : onKeyUp(code)
    \/ \E elapsed \in Elapsed : gameLoop(elapsed)
    \/ updateSystem(NoEffect)
    \/ updateEntity(NoEffect)
    \/ updateReturn

SpecApp == Init /\ [][NextApp]_vars

----------------------------------------------------------------------------
(* Properties of GameWorld and of the start-up *)

SystemCalls == SelectSeq(callLog, LAMBDA r : r.kind = "system")
EntityCalls == SelectSeq(callLog, LAMBDA r : r.kind = "entity")
Names(log) == [i \in 1..Len(log) |-> log[i].name]
ActiveEntities == SelectSeq(entities, LAMBDA e : entityActive[e])

\* C1: in an update call that began unpaused, every registered system is
\* updated exactly once, in ascending priority, with deltaTime * timeScale;
\* entity updates come after the last system update, and only entities
\* whose active flag is set are updated.
C1_SystemsThenEntities ==
    /\ \A i \in 1..Len(callLog) : callLog[i].dt = frameDt * frameScale
    /\ \A i, j \in 1..Len(callLog) :
          (i < j /\ callLog[j].kind = "system") =>
              /\ callLog[i].kind = "system"
              /\ priority(callLog[i].name) < priority(callLog[j].name)
    /\ \A i \in 1..Len(callLog) : callLog[i].active
    /\ (pc \in {"entities", "done"}) =>
          /\ Len(SystemCalls) = Len(systems)
          /\ Range(Names(SystemCalls)) = Range(systems)
    /\ (pc = "done") => Names(EntityCalls) = ActiveEntities

C1_Witness ==
    /\ pc = "done"
    /\ Len(systems) = 3
    /\ systems # SortByPriority(systems)
    /\ Len(entities) = 2
    /\ Len(EntityCalls) = 1
    /\ frameScale = 2
    /\ frameDt = 100

\* C2 as claimed: while the paused flag is set no update callback is
\* invoked and the game clock stands still, also inside a frame.
C2_NothingRunsWhilePaused ==
    [][isPaused => (Len(callLog') <= Len(callLog) /\ gameTime' = gameTime)]_vars

\* C2 as amended: an update call made while the paused flag is set returns
\* at once: it invokes no callback and leaves the game clock alone.
C2_PausedCallReturnsAtOnce ==
    [][(isPaused /\ pc = "idle") =>
          (pc' = "idle" /\ callLog' = callLog /\ gameTime' = gameTime)]_vars

C2_Witness ==
    /\ isPaused
    /\ lastUpdate = "skipped"
    /\ Len(systems) = 3
    /\ ActiveEntities # <<>>
    /\ timeScale > 0

\* C9: initSystems starts the inits in ascending priority order, each one
\* only after the init promise of every system before it has resolved, so
\* at most one init is in flight.
C9_InitOneAfterTheOther ==
    /\ Cardinality(initPending) <= 1
    /\ \A i, j \in 1..Len(initStarted) :
          i < j => /\ priority(initStarted[i]) < priority(initStarted[j])
                   /\ initStarted[i] \in initDone
    /\ \A s \in Range(initStarted) : \A r \in Range(initSorted) :
          priority(r) < priority(s) => r \in initDone

C9_Witness ==
    /\ initPc = "resolved"
    /\ Len(initStarted) = 3
    /\ systems # SortByPriority(systems)

\* C10: when an init rejects, initSystems rejects with it, no later init is
\* started, the start-up reports the error and the frame loop never starts.
C10_InitFailureStopsStartup ==
    (initFailed # "none") =>
        /\ initPc = "rejected"
        /\ initStarted[Len(initStarted)] = initFailed
        /\ initPending = {}
        /\ appPc = "failed"
        /\ errorReported
        /\ ~isRunning
        /\ lastUpdate = "none"
        /\ gameTime = 0

C10_Witness ==
    /\ initFailed = "TrafficSystem"
    /\ initStarted = <<"WeatherSystem", "TrafficSystem">>
    /\ errorReported

----------------------------------------------------------------------------
(* The traffic-light harness: TrafficSystem.init, then frames of a world   *)
(* whose entities are the lights.  One frame is one GameWorld.update call: *)
(* its entity phase calls update(scaledDelta) of every active light.       *)

MaxLightTime == 66100        \* no frame starts once gameTime reached this

LightDeltas == {0, 100, 1000, 10000}     \* milliseconds

\* TrafficSystem.init(world) called on its own
trafficInit ==
    /\ trafficLights = <<>>
    /\ pc = "idle"
    /\ entities' = MapSetAll(entities, initEntities("TrafficSystem"))
    /\ entityActive' = [e \in Range(MapSetAll(entities, initEntities("TrafficSystem"))) |->
                          IF e \in DOMAIN entityActive THEN entityActive[e] ELSE TRUE]
    /\ trafficLights' = createDefaultTrafficLights
    /\ UNCHANGED <<systems, isPaused, timeScale, gameTime>>
    /\ UNCHANGED <<frameVars, initVars, appVars, aiVars, vehVars>>
    /\ UNCHANGED extVars

\* the entity phase of one update call, for the traffic lights: the lights
\* the registry holds are updated when active
updateLights(lights, delta) ==
    [id \in DOMAIN lights |->
        IF id \in Range(entities) /\ entityDue(id)
        THEN updateTrafficLight(lights[id], delta)
        ELSE lights[id]]

lightsFrame(deltaTime) ==
    /\ trafficLights # <<>>
    /\ pc = "idle"
    /\ ~updateGate
    /\ gameTime < MaxLightTime
    /\ gameTime' = gameTime + deltaTime * timeScale
    /\ trafficLights' = updateLights(trafficLights, deltaTime * timeScale)
    /\ lastUpdate' = "ran"
    /\ UNCHANGED <<systems, entities, entityActive, isPaused, timeScale>>
    /\ UNCHANGED <<pc, sorted, idx, scaledDelta, frameDt, frameScale, callLog>>
    /\ UNCHANGED <<initVars, appVars, aiVars, vehVars>>
    /\ UNCHANGED extVars

NextLights ==
    \/ trafficInit
    \/ \E dt \in LightDeltas : lightsFrame(dt)

SpecLights == Init /\ [][NextLights]_vars

Seconds(n) == n * MsPerSecond

\* C3: after a light update the state is the phase of the timer (green
\* below 30 s of the 66 s cycle, yellow below 33 s, red otherwise), the
\* timer never decreases, and a light with offset 0 is green at 29.9 s,
\* yellow at 31 s, red at 40 s and green again at 66.1 s.
C3_StateFollowsTimer ==
    /\ [](lastUpdate = "ran" =>
            \A id \in DOMAIN trafficLights :
                LET c == trafficLights[id].timer % Seconds(30 + 3 + 33)
                    s == trafficLights[id].state
                IN  /\ (c < Seconds(30)) => s = "green"
                    /\ (c >= Seconds(30) /\ c < Seconds(33)) => s = "yellow"
                    /\ (c >= Seconds(33)) => s = "red")
    /\ [](lastUpdate = "ran" =>
            LET l == trafficLights["light_0_ew"] IN
                /\ l.timer = 29900 => l.state = "green"
                /\ l.timer = 31000 => l.state = "yellow"
                /\ l.timer = 40000 => l.state = "red"
                /\ l.timer = 66100 => l.state = "green")
    /\ [][\A id \in DOMAIN trafficLights :
              id \in DOMAIN trafficLights' =>
                  trafficLights'[id].timer >= trafficLights[id].timer]_vars

C3_Witness ==
    /\ lastUpdate = "ran"
    /\ trafficLights # <<>>
    /\ trafficLights["light_0_ew"].timer = 66100
    /\ trafficLights["light_0_ew"].state = "green"
    /\ trafficLights["light_0_ns"].state = "red"

Intersections == 0..(NumIntersections - 1)

----------------------------------------------------------------------------
(* TrafficSystem: the AI vehicles.  Positions are in millimetres, speeds   *)
(* in 0.001 km/h, times in milliseconds; a rotation is a number of quarter *)
(* turns (the four values spawnAIVehicle uses are pi, 0, -pi/2 and pi/2).  *)

MmPerMetre == 1000

Abs(n) == IF n < 0 THEN -n ELSE n

\* the intersections of createDefaultTrafficLights, in metres
IntersectionX(i) == CASE i = 1 -> 200 [] i = 3 -> -200 [] OTHER -> 0
IntersectionZ(i) == CASE i = 2 -> 200 [] i = 4 -> -200 [] OTHER -> 0

\* position and direction createDefaultTrafficLights gives light k of LightIds
lightX(k) == (IntersectionX((k - 1) \div 2) + (IF k % 2 = 1 THEN 10 ELSE 0)) * MmPerMetre
lightZ(k) == (IntersectionZ((k - 1) \div 2) + (IF k % 2 = 1 THEN 0 ELSE 10)) * MmPerMetre
lightY == 5 * MmPerMetre
lightDirX(k) == IF k % 2 = 1 THEN 1 ELSE 0
lightDirZ(k) == IF k % 2 = 1 THEN 0 ELSE 1

vehicleY == 700              \* y of a spawned AI vehicle: 0.7 m

\* (Math.sin(rotation), Math.cos(rotation))
sinQ(rot) == CASE rot = 1 -> 1 [] rot = -1 -> -1 [] OTHER -> 0
cosQ(rot) == CASE rot = 0 -> 1 [] rot = 2 -> -1 [] OTHER -> 0

\* 5 < Vector3.Distance(position, light.position) < 20
lightInRange(x, z, k) ==
    LET dx == x - lightX(k)
        dz == z - lightZ(k)
        dy == vehicleY - lightY
    IN  /\ Abs(dx) < 20 * MmPerMetre
        /\ Abs(dz) < 20 * MmPerMetre
        /\ dx * dx + dy * dy + dz * dz < (20 * MmPerMetre) * (20 * MmPerMetre)
        /\ dx * dx + dy * dy + dz * dz > (5 * MmPerMetre) * (5 * MmPerMetre)

\* Math.abs(Vector3.Dot(vehicleDir, light.direction)) > 0.7
lightAligned(rot, k) ==
    10 * Abs(sinQ(rot) * lightDirX(k) + cosQ(rot) * lightDirZ(k)) > 7

\* the id of the first light of the map that gates the vehicle, or "none"
getNearbyTrafficLight(x, z, rot) ==
    LET hits == {k \in DOMAIN LightIds : lightInRange(x, z, k) /\ lightAligned(rot, k)}
    IN  IF hits = {} \/ trafficLights = <<>> THEN "none"
        ELSE LightIds[CHOOSE k \in hits : \A m \in hits : k <= m]

aiMaxSpeed == 60000          \* maxSpeed: 60 km/h
despawnLimit == 600 * MmPerMetre

\* a vehicle that is never taken out of the live set
leftMapNever(v) == FALSE

\* Math.abs(position.x) > 600 || Math.abs(position.z) > 600
leftMap(v) == Abs(v.x) > despawnLimit \/ Abs(v.z) > despawnLimit

\* an update that brakes without the floor at 0
updateAIVehicleNoFloor(v, deltaTime) ==
    LET speedMs == (v.speed * 10) \div 36
        step == (speedMs * deltaTime) \div 1000
        nx == v.x + sinQ(v.rotation) * step
        nz == v.z + cosQ(v.rotation) * step
        nearbyLight == getNearbyTrafficLight(nx, nz, v.rotation)
        red == nearbyLight # "none" /\ trafficLights[nearbyLight].state = "red"
    IN  [v EXCEPT !.x = nx, !.z = nz,
                  !.speed = IF red
                            THEN v.speed - 50 * deltaTime
                            ELSE Min2(aiMaxSpeed, v.speed + 20 * deltaTime)]

\* updateAIVehicle up to the despawn test
updateAIVehicle(v, deltaTime) ==
    LET speedMs == (v.speed * 10) \div 36            \* mm/s
        step == (speedMs * deltaTime) \div 1000      \* mm
        nx == v.x + sinQ(v.rotation) * step
        nz == v.z + cosQ(v.rotation) * step
        nearbyLight == getNearbyTrafficLight(nx, nz, v.rotation)
        red == nearbyLight # "none" /\ trafficLights[nearbyLight].state = "red"
    IN  [v EXCEPT !.x = nx, !.z = nz,
                  !.speed = IF red
                            THEN Max2(0, v.speed - 50 * deltaTime)
                            ELSE Min2(aiMaxSpeed, v.speed + 20 * deltaTime)]

\* the vehicle spawnAIVehicle creates
spawnAIVehicle(id, side, lateral, initialSpeed) ==
    CASE side = 0 -> [id |-> id, x |-> lateral, z |-> 500 * MmPerMetre,
                      rotation |-> 2, speed |-> initialSpeed]
      [] side = 1 -> [id |-> id, x |-> lateral, z |-> -500 * MmPerMetre,
                      rotation |-> 0, speed |-> initialSpeed]
      [] side = 2 -> [id |-> id, x |-> 500 * MmPerMetre, z |-> lateral,
                      rotation |-> -1, speed |-> initialSpeed]
      [] OTHER    -> [id |-> id, x |-> -500 * MmPerMetre, z |-> lateral,
                      rotation |-> 1, speed |-> initialSpeed]

spawnInterval == 5 * MsPerSecond

\* a spawn test that does not look at the population
spawnDueUncapped(timer) == timer > spawnInterval

\* spawnTimer > 5 && aiVehicles.size < maxAIVehicles
spawnDue(timer) == timer > spawnInterval /\ Len(aiVehicles) < maxAIVehicles

\* a spawn that leaves the timer running
spawnTimerKept(timer) == timer

\* spawnTimer after the spawn test of update
spawnTimerAfter(timer) == IF spawnDue(timer) THEN 0 ELSE timer

MapSeq(f(_), seq) == [i \in 1..Len(seq) |-> f(seq[i])]

MaxSpawns == 2               \* no frame spawns once this many were spawned

\* TrafficSystem.update(deltaTime); side, lateral and initialSpeed are the
\* draws of Math.random() a spawn makes
trafficUpdate(deltaTime, side, lateral, initialSpeed) ==
    LET timer == spawnTimer + deltaTime
        withNew == IF spawnDue(timer)
                   THEN Append(aiVehicles,
                               spawnAIVehicle(nextAiId + 1, side, lateral, initialSpeed))
                   ELSE aiVehicles
        moved == [i \in 1..Len(withNew) |-> updateAIVehicle(withNew[i], deltaTime)]
    IN  /\ spawnDue(timer) => nextAiId < MaxSpawns
        \* Math.random() is drawn only by a spawn
        /\ ~spawnDue(timer) => (side = 0 /\ lateral = 0 /\ initialSpeed = 30000)
        /\ spawnTimer' = spawnTimerAfter(timer)
        /\ nextAiId' = IF spawnDue(timer) THEN nextAiId + 1 ELSE nextAiId
        /\ aiVehicles' = SelectSeq(moved, LAMBDA v : ~leftMap(v))
        /\ aiDisposed' = aiDisposed \cup
                            {moved[i].id : i \in {j \in 1..Len(moved) : leftMap(moved[j])}}
        /\ UNCHANGED maxAIVehicles

setMaxAIVehicles(count) ==
    /\ maxAIVehicles' = Max2(0, Min2(100, count))
    /\ UNCHANGED <<aiVehicles, spawnTimer, nextAiId, aiDisposed>>
    /\ UNCHANGED <<worldVars, frameVars, initVars, appVars, trafficLights, vehVars>>
    /\ UNCHANGED extVars

(* The traffic harness: TrafficSystem.init, then frames of a world whose   *)
(* system is TrafficSystem and whose entities are its lights.              *)

MaxTrafficTime == 100000     \* no frame starts once gameTime reached this

TrafficDeltas == {10000, 30000}
SpawnSides == 0..3
SpawnLaterals == {0}
SpawnSpeeds == {30000, 45000}
MaxInputs == {-1, 1}

\* one update of a world whose system is TrafficSystem and whose entities
\* are its lights: the system first, then the lights
trafficStep(deltaTime, side, lateral, initialSpeed) ==
    /\ trafficLights # <<>>
    /\ pc = "idle"
    /\ ~updateGate
    /\ gameTime' = gameTime + deltaTime * timeScale
    /\ trafficUpdate(deltaTime * timeScale, side, lateral, initialSpeed)
    /\ trafficLights' = updateLights(trafficLights, deltaTime * timeScale)
    /\ lastUpdate' = "ran"
    /\ UNCHANGED <<systems, entities, entityActive, isPaused, timeScale>>
    /\ UNCHANGED <<pc, sorted, idx, scaledDelta, frameDt, frameScale, callLog>>
    /\ UNCHANGED <<initVars, appVars, vehVars>>
    /\ UNCHANGED extVars

trafficFrame(deltaTime, side, lateral, initialSpeed) ==
    /\ gameTime < MaxTrafficTime
    /\ trafficStep(deltaTime, side, lateral, initialSpeed)

NextTraffic ==
    \/ trafficInit
    \/ \E dt \in TrafficDeltas, side \in SpawnSides, lateral \in SpawnLaterals,
          initialSpeed \in SpawnSpeeds : trafficFrame(dt, side, lateral, initialSpeed)
    \/ \E count \in MaxInputs : setMaxAIVehicles(count)

SpecTraffic == Init /\ [][NextTraffic]_vars

LiveIds == {aiVehicles[i].id : i \in 1..Len(aiVehicles)}

\* C7 as claimed: the number of live AI vehicles never exceeds
\* maxAIVehicles, whatever the interleaving of update and setMaxAIVehicles.
C7_LiveCountWithinMax == Len(aiVehicles) <= maxAIVehicles

\* C7 as amended: an update spawns only while the live count is below
\* maxAIVehicles and never raises the count above it; with a maximum of 1
\* nothing is spawned while a vehicle is live.
C7_SpawnOnlyBelowMax ==
    [][/\ (nextAiId' > nextAiId) =>
              /\ Len(aiVehicles) < maxAIVehicles
              /\ Len(aiVehicles') <= maxAIVehicles'
       /\ (Len(aiVehicles') > Len(aiVehicles)) => Len(aiVehicles') <= maxAIVehicles'
       /\ (maxAIVehicles = 1 /\ Len(aiVehicles) >= 1) => nextAiId' = nextAiId]_vars

C7_Witness ==
    /\ maxAIVehicles = 1
    /\ Len(aiVehicles) = 1
    /\ nextAiId = 1
    /\ spawnTimer > spawnInterval

\* C8: after an update no live AI vehicle is outside the square of 600 m;
\* every vehicle ever spawned is either live or was disposed.
C8_OutsideMeansDespawned ==
    /\ \A i \in 1..Len(aiVehicles) :
          /\ Abs(aiVehicles[i].x) <= 600 * MmPerMetre
          /\ Abs(aiVehicles[i].z) <= 600 * MmPerMetre
    /\ \A id \in 1..nextAiId : (id \in LiveIds) # (id \in aiDisposed)

C8_Witness ==
    /\ aiDisposed # {}
    /\ Len(aiVehicles) = 1
    /\ lastUpdate = "ran"

(* The vehicle harness: a vehicle of any preset, driven through its API *)

ThrottleInputs == {0, 1500}
BrakeInputs == {-200, 1000}
SteeringInputs == {-2000}
VehicleDeltas == {0, 100, 1000}      \* milliseconds

InitVehicles ==
    /\ InitWorld /\ InitFrame /\ InitInit /\ InitApp /\ InitTraffic /\ InitExt
    /\ \E k \in PresetKeys : InitVehicle(k)

NextVehicle ==
    \/ spawn
    \/ \E value \in ThrottleInputs : setThrottle(value)
    \/ \E value \in BrakeInputs : setBrake(value)
    \/ \E value \in SteeringInputs : setSteering(value)
    \/ \E value \in BOOLEAN : setHandbrake(value)
    \/ shiftUp
    \/ shiftDown
    \/ \E dt \in VehicleDeltas : vehUpdates < MaxVehicleUpdates /\ vehicleUpdate(dt)

SpecVehicle == InitVehicles /\ [][NextVehicle]_vars


\* C5: for every preset, after any sequence of setThrottle, setBrake,
\* setSteering, shiftUp, shiftDown and update calls, in any gear (gear 0 with
\* its negative ratio included), idleRPM <= rpm <= maxRPM and speed >= 0.
C5_RpmAndSpeedInRange ==
    /\ spec.idleRPM <= rpm
    /\ rpm <= spec.maxRPM
    /\ speed >= 0

\* the vehicle moves in gear 0 of a table whose entry 0 is negative, and the
\* last update clamped the engine speed computed from it up to idle
C5_Witness ==
    /\ vehMesh
    /\ vehUpdates >= 2
    /\ gear = 0
    /\ gearRatioAt(0) < 0
    /\ speed > 0
    /\ updateRPM(speed \div 36, gear) = rpm
    /\ rpm = spec.idleRPM

\* C6: for every preset, the single-ratio EV6 included, from construction on
\* the gear is a valid index of the preset's gear-ratio table:
\* 0 <= gear <= len(gearRatios) - 1.
C6_GearInTable ==
    /\ 0 <= gear
    /\ gear <= Len(spec.gearRatios) - 1

----------------------------------------------------------------------------
(* The registry harness: any caller of the registries and of dispose *)

EventNames == {"entity:removed"}
Callbacks == {"cb1", "cb2"}
EntityObjects == {1, 2}

\* dispose has run: the world is not used again
disposed == disposeLog # <<>> /\ disposeLog[1].by = "dispose"

NextRegistry ==
    \/ \E s \in SystemNames : ~disposed /\ registerSystem(s)
    \/ \E e \in EntityIds, o \in EntityObjects :
          ~disposed /\ addEntity([id |-> e, obj |-> o, active |-> TRUE])
    \/ \E e \in EntityIds : ~disposed /\ removeEntity(e)
    \/ \E ev \in EventNames, cb \in Callbacks : ~disposed /\ on(ev, cb)
    \/ \E ev \in EventNames, cb \in Callbacks : ~disposed /\ off(ev, cb)
    \/ ~disposed /\ dispose

SpecRegistry == Init /\ [][NextRegistry]_vars

\* C11: dispose disposes every registered entity before any system, then
\* the systems in descending priority order, which is the reverse of the
\* order of initSystems, and leaves the entity registry, the system
\* registry and the event subscriptions empty.
C11_EntitiesThenSystemsDescending ==
    [][dispose =>
         LET n == Len(entities)
             k == Len(systems)
         IN  /\ Len(disposeLog') = n + k
             /\ \A i \in 1..n : /\ disposeLog'[i].kind = "entity"
                                /\ disposeLog'[i].name = entities[i]
             /\ \A i \in 1..k : /\ disposeLog'[n + i].kind = "system"
                                /\ disposeLog'[n + i].name = initOrder(systems)[k + 1 - i]
             /\ \A i \in 1..k, j \in 1..k :
                    i < j => priority(disposeLog'[n + i].name) > priority(disposeLog'[n + j].name)
             /\ entities' = <<>>
             /\ systems' = <<>>
             /\ events' = <<>>]_vars

\* dispose has run on a world of two entities and the three systems
C11_Witness ==
    /\ Len(disposeLog) = 5
    /\ disposeLog[1].by = "dispose"
    /\ disposeLog[3].name = "AudioSystem"
    /\ disposeLog[5].name = "WeatherSystem"
    /\ entities = <<>>
    /\ systems = <<>>
    /\ events = <<>>

\* C19 as claimed: every entity object that left the registry, by
\* removeEntity, by being replaced through addEntity or by dispose, had
\* its dispose called.
C19_GoneMeansDisposed ==
    \A g \in gone : <<g[1], g[2]>> \in disposedObjs

\* C19 as amended: an entity object that left the registry by removeEntity
\* or by dispose had its dispose called; one that was replaced through
\* addEntity of another object with its id left without it.
C19_RemovedMeansDisposed ==
    \A g \in gone :
        IF g[3] = "addEntity"
        THEN <<g[1], g[2]>> \notin disposedObjs
        ELSE <<g[1], g[2]>> \in disposedObjs

\* objects have left the registry in each of the three ways
C19_Witness ==
    /\ \E g \in gone : g[3] = "removeEntity"
    /\ \E g \in gone : g[3] = "addEntity"
    /\ \E g \in gone : g[3] = "dispose"

----------------------------------------------------------------------------
(* Braking to rest: a spawned vehicle is driven at full throttle, then the
   throttle is released and the brake held while update keeps being called *)

MaxAccelUpdates == 2       \* update calls made at full throttle
MaxDriveUpdates == 20      \* update calls of one behaviour of the braking harness
AccelDelta == 1000         \* milliseconds
BrakeDeltas == {200, 250}  \* milliseconds

braking == vehMesh /\ throttle = 0 /\ brake = 1000

brakeUpdate ==
    /\ braking
    /\ vehUpdates < MaxDriveUpdates
    /\ \E dt \in BrakeDeltas : vehicleUpdate(dt)

NextBrake ==
    \/ spawn
    \/ ~braking /\ \E value \in {0, 1000} : setThrottle(value)
    \/ ~braking /\ throttle = 1000 /\ vehUpdates < MaxAccelUpdates /\ vehicleUpdate(AccelDelta)
    \/ ~braking /\ setBrake(1000)
    \/ brakeUpdate

\* update is called again and again while the brake is held
SpecBrake == InitVehicles /\ [][NextBrake]_vars /\ WF_vars(brakeUpdate)

\* C12: with throttle 0 and brake 1 held on a spawned vehicle, every update
\* with a positive time step makes the speed strictly smaller until it is
\* exactly 0, after which it stays 0; the speed is never negative, and it
\* reaches 0 after finitely many updates.
C12_BrakingStopsTheVehicle ==
    /\ [][(braking /\ vehUpdates' = vehUpdates + 1)
           => IF speed > 0 THEN speed' < speed ELSE speed' = 0]_vars
    /\ [](speed >= 0)
    /\ (braking ~> speed = 0)

\* the brake was held on a moving vehicle, which came to rest and was
\* updated again at rest
C12_Witness ==
    /\ braking
    /\ speed = 0
    /\ posZ > 0
    /\ vehUpdates = MaxDriveUpdates

----------------------------------------------------------------------------
(* The input harness: keys and pad buttons go down and up between calls of
   InputManager.update *)

PadButtons == {4, 5}
Gamepads ==
    {[connected |-> FALSE, pressed |-> {}]}
        \cup {[connected |-> TRUE, pressed |-> b] : b \in SUBSET PadButtons}

NextInput ==
    \/ \E code \in InputKeys : onKeyDown(code)
    \/ \E code \in InputKeys : onKeyUp(code)
    \/ \E gp \in Gamepads : gamepadChanged(gp)
    \/ inputUpdate

SpecInput == Init /\ [][NextInput]_vars

\* C13: shiftUp and shiftDown of the input snapshot are true only in the
\* first update call that sees the key or button held; while it stays held
\* over the following calls they are false.
C13_ShiftOnlyOnFirstHeldFrame ==
    /\ inputState.shiftUp => heldFrames.shiftUp = 1
    /\ inputState.shiftDown => heldFrames.shiftDown = 1

----------------------------------------------------------------------------
(* KoreaMapLoader.loadRegion *)

\* Math.random() of the calls generateTestMap makes, in thousandths: the
\* n-th draw of a call is draws[n]
DrawSequences ==
    { [n \in 1..75 |-> 0], [n \in 1..75 |-> 999], [n \in 1..75 |-> (n * 371) % 1000] }

\* the roads of the test map: for i from -2 to 2 the east-west road i, then
\* the north-south road i; lengths in millimetres
testRoads ==
    [k \in 1..10 |->
        LET i == ((k - 1) \div 2) - 2
        IN  IF k % 2 = 1
            THEN [id |-> "test_road_ew_" \o ToString(i), type |-> "primary",
                  lanes |-> 2, speedLimit |-> 50, width |-> 10000,
                  from |-> <<-500000, 0, i * 100000>>, to |-> <<500000, 0, i * 100000>>]
            ELSE [id |-> "test_road_ns_" \o ToString(i), type |-> "secondary",
                  lanes |-> 2, speedLimit |-> 40, width |-> 8000,
                  from |-> <<i * 100000, 0, -500000>>, to |-> <<i * 100000, 0, 500000>>]]

\* the cells (x, z) of the building loops, in loop order: both even
testCells ==
    SelectSeq([k \in 1..81 |-> <<((k - 1) \div 9) - 4, ((k - 1) % 9) - 4>>],
              LAMBDA cell : cell[1] % 2 = 0 /\ cell[2] % 2 = 0)

\* a building whose place depends on the draws
testBuildingJittered(cell, h, w, d) ==
    [id |-> "test_building_" \o ToString(cell[1]) \o "_" \o ToString(cell[2]),
     type |-> "commercial",
     x |-> cell[1] * 100000 + 50000 + w,
     y |-> (h * 30 + 15000) \div 2,
     z |-> cell[2] * 100000 + 50000 + d,
     width |-> 40000 + w * 20,
     depth |-> 40000 + d * 20,
     height |-> h * 30 + 15000]

\* the building of a cell, h, w and d being the draws for its height, width
\* and depth
testBuilding(cell, h, w, d) ==
    [id |-> "test_building_" \o ToString(cell[1]) \o "_" \o ToString(cell[2]),
     type |-> "commercial",
     x |-> cell[1] * 100000 + 50000,
     y |-> (h * 30 + 15000) \div 2,
     z |-> cell[2] * 100000 + 50000,
     width |-> 40000 + w * 20,
     depth |-> 40000 + d * 20,
     height |-> h * 30 + 15000]

\* generateTestMap(regionKey, bbox); bbox is a function of the region and
\* of the radius, which is the default of loadRegion in every call
generateTestMap(regionKey, draws) ==
    [region |-> regionKey,
     roads |-> testRoads,
     buildings |-> [k \in 1..Len(testCells) |->
                       testBuilding(testCells[k], draws[3 * k - 2],
                                    draws[3 * k - 1], draws[3 * k])]]

\* a catch block that throws the error on
catchRethrows == [pc |-> "rejected", result |-> "none", warned |-> FALSE]

\* the catch block: console.warn, return this.generateTestMap(regionKey, bbox)
catchBlock == [pc |-> "resolved", result |-> "fallback", warned |-> TRUE]

\* the call c leaves the try block because of fault
loadFailed(c, fault) ==
    /\ \E draws \in DrawSequences :
          testMap' = [testMap EXCEPT ![c] = generateTestMap(loadKey[c], draws)]
    /\ loadFault' = [loadFault EXCEPT ![c] = fault]
    /\ loadPc' = [loadPc EXCEPT ![c] = catchBlock.pc]
    /\ loadResult' = [loadResult EXCEPT ![c] = catchBlock.result]
    /\ loadWarned' = [loadWarned EXCEPT ![c] = catchBlock.warned]

\* loadRegion(regionKey), up to its first await
loadRegion(c, regionKey) ==
    /\ loadPc[c] = "idle"
    /\ loadKey' = [loadKey EXCEPT ![c] = regionKey]
    /\ IF regionKey \notin KOREA_REGIONS
       THEN /\ loadPc' = [loadPc EXCEPT ![c] = "rejected"]
            /\ UNCHANGED fetchCount
       ELSE /\ loadPc' = [loadPc EXCEPT ![c] = "fetching"]
            /\ fetchCount' = [fetchCount EXCEPT ![c] = @ + 1]
    /\ UNCHANGED <<loadResult, loadWarned, loadFault, testMap>>
    /\ UNCHANGED <<worldVars, frameVars, initVars, appVars, simVars>>
    /\ UNCHANGED <<poseVars, regVars, inputVars, loopLog>>

\* the fetch promise settles: rejected, or fulfilled with response.ok false
\* or true
fetchSettle(c, outcome) ==
    /\ loadPc[c] = "fetching"
    /\ CASE outcome = "rejected" -> loadFailed(c, "network")
         [] outcome = "notOk" -> loadFailed(c, "status")
         [] outcome = "ok" -> /\ loadPc' = [loadPc EXCEPT ![c] = "parsing"]
                              /\ UNCHANGED <<loadResult, loadWarned, loadFault, testMap>>
    /\ UNCHANGED <<loadKey, fetchCount>>
    /\ UNCHANGED <<worldVars, frameVars, initVars, appVars, simVars>>
    /\ UNCHANGED <<poseVars, regVars, inputVars, loopLog>>

\* response.json() settles: rejected, fulfilled with a value parseOSMData
\* throws on, or fulfilled with OSM data
jsonSettle(c, body) ==
    /\ loadPc[c] = "parsing"
    /\ CASE body = "unparsable" -> loadFailed(c, "body")
         [] body = "noElements" -> loadFailed(c, "shape")
         [] body = "osm" -> /\ loadPc' = [loadPc EXCEPT ![c] = "resolved"]
                            /\ loadResult' = [loadResult EXCEPT ![c] = "osm"]
                            /\ UNCHANGED <<loadWarned, loadFault, testMap>>
    /\ UNCHANGED <<loadKey, fetchCount>>
    /\ UNCHANGED <<worldVars, frameVars, initVars, appVars, simVars>>
    /\ UNCHANGED <<poseVars, regVars, inputVars, loopLog>>

RegionArgs == {"seoul-gangnam", "yongin-suji", "daejeon-dunsan", "jeju"}

NextLoad ==
    \/ \E c \in LoadIds, regionKey \in RegionArgs : loadRegion(c, regionKey)
    \/ \E c \in LoadIds, outcome \in {"rejected", "notOk", "ok"} : fetchSettle(c, outcome)
    \/ \E c \in LoadIds, body \in {"unparsable", "noElements", "osm"} : jsonSettle(c, body)

SpecLoad == Init /\ [][NextLoad]_vars

\* C14: a loadRegion call with a key of KOREA_REGIONS never rejects; when
\* the fetch rejects, the response is not OK or the body cannot be parsed,
\* the call resolves with the generated fallback map, having called fetch
\* once.
C14_KnownRegionNeverRejects ==
    \A c \in LoadIds :
        loadKey[c] \in KOREA_REGIONS
            => /\ loadPc[c] # "rejected"
               /\ fetchCount[c] <= 1
               /\ loadFault[c] # "none"
                    => /\ loadPc[c] = "resolved"
                       /\ loadResult[c] = "fallback"
                       /\ fetchCount[c] = 1

\* a call whose response body could not be parsed has resolved with the
\* fallback map
C14_Witness ==
    \E c \in LoadIds :
        /\ loadKey[c] \in KOREA_REGIONS
        /\ loadFault[c] = "body"
        /\ loadPc[c] = "resolved"
        /\ loadResult[c] = "fallback"

----------------------------------------------------------------------------
(* TrafficSystem and the entity registry *)

\* the id spawnAIVehicle gives the vehicle v: `ai_${Date.now()}_${...}`
aiEntityId(v) == "ai_" \o ToString(v.id)

----------------------------------------------------------------------------
(* Vehicle.update with a time step of 0 *)

\* a step of update(0) on a spawned vehicle
zeroStep == vehMesh /\ vehUpdates' = vehUpdates + 1 /\ lastDelta' = 0

inputsOf(s) == <<s.throttle, s.brake, s.steering, s.handbrake>>
poseOf(s) == <<s.posX, s.posZ, s.yaw>>

----------------------------------------------------------------------------
(* shiftUp and shiftDown *)

maxGear == Len(spec.gearRatios) - 1

\* C17: for every gear g of the table shiftUp after shiftDown gives g again,
\* except at gear 0 where shiftDown does nothing; both stay inside the table
\* (no wrap at either end), move by one gear, and a call that is not at its
\* end of the table takes effect whatever the rpm.
C17_ShiftsAreClampedInverses ==
    /\ [](gear \in 0..maxGear =>
            /\ gear >= 1 => shiftUpGear(shiftDownGear(gear)) = gear
            /\ shiftUpGear(gear) = IF gear = maxGear THEN gear ELSE gear + 1
            /\ shiftDownGear(gear) = IF gear = 0 THEN gear ELSE gear - 1)
    /\ [][(vehUpdates' = vehUpdates /\ gear' # gear)
            => /\ gear' \in {shiftUpGear(gear), shiftDownGear(gear)}
               /\ rpm' = rpm]_vars

\* the top gear of a six-speed table, reached by shiftUp calls alone
C17_Witness ==
    /\ gear = maxGear
    /\ gear >= 6
    /\ vehUpdates = 0

----------------------------------------------------------------------------
(* The time step of a frame *)

vehicleCallsOf(log) == SelectSeq(log, LAMBDA r : r.call = "vehicle.update")

\* C18: the time step a frame hands to the player vehicle and to the world
\* is at most 0.1 s, whatever time has passed since the previous callback;
\* a frame calls Vehicle.update at most once, before GameWorld.update.
C18_FrameStepCapped ==
    /\ \A i \in 1..Len(loopLog) : loopLog[i].dt <= MaxFrameDelta
    /\ Len(vehicleCallsOf(loopLog)) <= 1
    /\ \A i \in 1..Len(loopLog) :
          loopLog[i].call = "vehicle.update" => i = 1
    /\ loopLog # <<>> => loopLog[Len(loopLog)].call = "world.update"
    /\ lastDelta <= MaxFrameDelta
    /\ frameDt <= MaxFrameDelta

\* a frame has updated the vehicle and then the world with the capped step
C18_Witness ==
    /\ Len(loopLog) = 2
    /\ loopLog[1] = [call |-> "vehicle.update", dt |-> MaxFrameDelta]
    /\ loopLog[2] = [call |-> "world.update", dt |-> MaxFrameDelta]
    /\ lastDelta = MaxFrameDelta
    /\ frameDt = MaxFrameDelta
    /\ ~appPaused
    /\ vehUpdates >= 2

----------------------------------------------------------------------------
(* The traffic lights with their timers as the IEEE-754 doubles the program
   holds.  A double below 128 is written <<h, m, l>>, three digits in base
   2^24 of its value in units of 2^-56 s; every timer, step and threshold used
   here is a whole number of these units.  An addition is exact on the three
   digits and then rounded to 53 significant bits, ties to even, as the
   machine does. *)

Limb == 16777216                \* 2^24
UnitsPerSecondHigh == 256       \* 2^56 / 2^48: one second in the digit h

RECURSIVE Pow2(_)
Pow2(n) == IF n = 0 THEN 1 ELSE 2 * Pow2(n - 1)

RECURSIVE bitLen(_)
bitLen(n) == IF n = 0 THEN 0 ELSE 1 + bitLen(n \div 2)

\* digits brought back below 2^24
carry(v) ==
    LET m1 == v[2] + v[3] \div Limb
    IN  <<v[1] + m1 \div Limb, m1 % Limb, v[3] % Limb>>

\* the nearest double of the exact value v, ties to even
round53(v) ==
    LET w == carry(v)
        k == IF w[1] < 32 THEN 0 ELSE bitLen(w[1]) - 5     \* bits past the 53rd
        q == Pow2(k)
        r == w[3] % q
        low == w[3] - r
        up == k > 0 /\ (2 * r > q \/ (2 * r = q /\ (w[3] \div q) % 2 = 1))
    IN  carry(<<w[1], w[2], IF up THEN low + q ELSE low>>)

\* a + b of two doubles
add64(a, b) == round53(<<a[1] + b[1], a[2] + b[2], a[3] + b[3]>>)

\* a * n of a double and a small whole number
mul64(a, n) == round53(<<a[1] * n, a[2] * n, a[3] * n>>)

\* the double of a whole number of seconds
binary64OfSeconds(s) == <<s * UnitsPerSecondHigh, 0, 0>>

\* the double nearest to ms / 1000, for the frame steps used here
binary64OfMs(ms) ==
    CASE ms = 100 -> <<25, 10066329, 10066330>>        \* 0x1999999999999A * 2^-56
      [] ms = 200 -> <<51, 3355443, 3355444>>          \* 0x33333333333334 * 2^-56
      [] ms = 300 -> <<76, 13421772, 13421772>>        \* 0x4CCCCCCCCCCCCC * 2^-56

\* timer % cycleDuration for a timer below two cycles; the remainder of two
\* doubles is exact
cycleTime64(timer) ==
    LET cycleHigh == ((greenDuration + yellowDuration + redDuration) \div MsPerSecond)
                        * UnitsPerSecondHigh
    IN  IF timer[1] >= cycleHigh
        THEN <<timer[1] - cycleHigh, timer[2], timer[3]>>
        ELSE timer

\* the state updateTrafficLight derives from the cycle time
phaseState64(cycleTime) ==
    IF cycleTime[1] < (greenDuration \div MsPerSecond) * UnitsPerSecondHigh
    THEN "green"
    ELSE IF cycleTime[1] < ((greenDuration + yellowDuration) \div MsPerSecond)
                                * UnitsPerSecondHigh
         THEN "yellow"
         ELSE "red"

updateTrafficLight64(light, deltaTime) ==
    LET timer == add64(light.timer, deltaTime)
    IN  [timer |-> timer, state |-> phaseState64(cycleTime64(timer))]

\* the lights createDefaultTrafficLights leaves
createDefaultTrafficLights64 ==
    [id \in Range(LightIds) |->
        LET k == CHOOSE n \in DOMAIN LightIds : LightIds[n] = id
        IN  [timer |-> binary64OfSeconds(timerOffset(k) \div MsPerSecond),
             state |-> "red"]]

MaxLightTime64 == 33000      \* no frame starts once gameTime reached this (ms)
LightDeltas64 == {300}       \* milliseconds
TimeScales64 == {1, 2}

\* TrafficSystem.init(world) called on its own
trafficInit64 ==
    /\ trafficLights = <<>>
    /\ pc = "idle"
    /\ entities' = MapSetAll(entities, initEntities("TrafficSystem"))
    /\ entityActive' = [e \in Range(MapSetAll(entities, initEntities("TrafficSystem"))) |->
                          IF e \in DOMAIN entityActive THEN entityActive[e] ELSE TRUE]
    /\ trafficLights' = createDefaultTrafficLights64
    /\ UNCHANGED <<systems, isPaused, timeScale, gameTime>>
    /\ UNCHANGED <<frameVars, initVars, appVars, aiVars, vehVars>>
    /\ UNCHANGED extVars

\* one GameWorld.update(deltaTime) call: its entity phase calls
\* update(scaledDelta) of every active light
lightsFrame64(deltaTime) ==
    /\ trafficLights # <<>>
    /\ pc = "idle"
    /\ ~updateGate
    /\ gameTime < MaxLightTime64
    /\ gameTime' = gameTime + deltaTime * timeScale
    /\ trafficLights' =
          [id \in DOMAIN trafficLights |->
              IF entityDue(id)
              THEN updateTrafficLight64(trafficLights[id],
                                        mul64(binary64OfMs(deltaTime), timeScale))
              ELSE trafficLights[id]]
    /\ lastUpdate' = "ran"
    /\ UNCHANGED <<systems, entities, entityActive, isPaused, timeScale>>
    /\ UNCHANGED <<pc, sorted, idx, scaledDelta, frameDt, frameScale, callLog>>
    /\ UNCHANGED <<initVars, appVars, aiVars, vehVars>>
    /\ UNCHANGED extVars

NextLights64 ==
    \/ trafficInit64
    \/ \E scale \in TimeScales64 : setTimeScale(scale)
    \/ \E dt \in LightDeltas64 : lightsFrame64(dt)

SpecLights64 == Init /\ [][NextLights64]_vars

redCount(i) ==
    Cardinality({axis \in {"ew", "ns"} : trafficLights[LightId(i, axis)].state = "red"})

\* C20: at every frame boundary after the first light update, of the two
\* lights of an intersection exactly one is red, for any sequence of time
\* steps and time scales.
C20_ExactlyOneRedAtFrameBoundary ==
    (lastUpdate = "ran") => \A i \in Intersections : redCount(i) = 1

----------------------------------------------------------------------------
(* Gear 0, the reverse entry of the table *)

\* C21 as claimed: no sequence of shiftUp, shiftDown and update calls puts
\* the vehicle in gear 0.
C21_NeverInGearZero == gear # 0

\* C21: gear 0 is entered by a shiftDown call in gear 1 and in no other way;
\* update (automatic shifting) never moves the gear to 0, and the gear is
\* never below 0.
C21_GearZeroOnlyByShiftDown ==
    /\ [](gear >= 0)
    /\ [][(gear' = 0 /\ gear # 0)
            => /\ vehUpdates' = vehUpdates
               /\ gear = 1
               /\ gear' = shiftDownGear(gear)]_vars

\* a vehicle that was updated stands in gear 0 after a shiftDown
C21_Witness ==
    /\ gear = 0
    /\ vehMesh
    /\ vehUpdates >= 1

----------------------------------------------------------------------------
(* The state of a light between its creation and its first update *)

phaseOf(light) ==
    phaseState(light.timer % (greenDuration + yellowDuration + redDuration))

----------------------------------------------------------------------------
(* emit, with callbacks that subscribe and unsubscribe while it runs *)

EmitEvents == {"game:paused", "game:resumed"}

\* what a callback does to the subscriptions when it is called
Effects ==
    {[op |-> "none", event |-> "", callback |-> ""]}
        \cup [op : {"on", "off"}, event : EmitEvents, callback : Callbacks]

\* on and off as functions of the subscription map
eventsAfter(effect, evs) ==
    LET old == IF effect.event \in DOMAIN evs THEN evs[effect.event] ELSE <<>>
    IN  CASE effect.op = "on"  -> (effect.event :> Append(old, effect.callback)) @@ evs
          [] effect.op = "off" ->
                IF effect.event \in DOMAIN evs
                THEN [evs EXCEPT ![effect.event] = removeFirst(old, effect.callback)]
                ELSE evs
          [] OTHER -> evs

\* for (const callback of callbacks) callback(...args): the array iterator
\* reads callbacks[i] from the live array while i < callbacks.length
RECURSIVE emitLoop(_, _, _, _, _)
emitLoop(event, effectOf, i, evs, calls) ==
    IF i > Len(evs[event]) \/ \E e \in DOMAIN evs : Len(evs[e]) > MaxListeners
    THEN [events |-> evs, calls |-> calls,
          done |-> \A e \in DOMAIN evs : Len(evs[e]) <= MaxListeners]
    ELSE LET callback == evs[event][i]
         IN  emitLoop(event, effectOf, i + 1,
                      eventsAfter(effectOf[callback], evs), Append(calls, callback))

emitRun(event, effectOf) ==
    IF event \in DOMAIN events
    THEN emitLoop(event, effectOf, 1, events, <<>>)
    ELSE [events |-> events, calls |-> <<>>, done |-> TRUE]

\* emit(event, ...args), each callback acting as effectOf says
emit(event, effectOf) ==
    /\ pc = "idle"
    /\ emitRun(event, effectOf).done
    /\ events' = emitRun(event, effectOf).events
    /\ emitted' = emitRun(event, effectOf).calls
    /\ UNCHANGED <<entityObj, disposeLog, disposedObjs, gone>>
    /\ UNCHANGED <<worldVars, frameVars, initVars, appVars, simVars>>
    /\ UNCHANGED <<poseVars, inputVars, loopLog, loadVars>>

NextEmit ==
    \/ \E ev \in EmitEvents, cb \in Callbacks : on(ev, cb)
    \/ \E ev \in EmitEvents, cb \in Callbacks : off(ev, cb)
    \/ \E ev \in EmitEvents, effectOf \in [Callbacks -> Effects] : emit(ev, effectOf)

SpecEmit == Init /\ [][NextEmit]_vars

\* C23: emit calls every callback subscribed to the event when the emit
\* starts, exactly once each and in registration order, and no other
\* callback, also when a callback subscribes or unsubscribes during the emit.
C23_EmitCallsSnapshot ==
    [][\A ev \in EmitEvents, effectOf \in [Callbacks -> Effects] :
          emit(ev, effectOf) => emitted' = listeners(ev)]_vars

----------------------------------------------------------------------------
(* The spawn timer of TrafficSystem *)

----------------------------------------------------------------------------
(* Automatic shifting back and forth *)

\* the gear after one and after two further updates with the inputs held
gearAfterOne(deltaTime) == updateState(state, deltaTime).gear
gearAfterTwo(deltaTime) == updateState(updateState(state, deltaTime), deltaTime).gear

\* with the inputs held, two consecutive updates of step deltaTime shift in
\* opposite directions
oscillatesAt(deltaTime) ==
    /\ vehMesh
    /\ spec.auto
    /\ gearAfterOne(deltaTime) # gear
    /\ gearAfterTwo(deltaTime) = gear

\* C25: automatic shifting has no hysteresis: an update shifts up exactly
\* when the engine speed it has just computed exceeds 0.85 maxRPM below the
\* top gear, and otherwise down exactly when it is below 0.30 maxRPM above
\* gear 1, whatever the shift of the update before; for a preset there is a
\* reachable state from which, the inputs held, two consecutive updates
\* shift in opposite directions.
C25_ShiftsOnThresholdsAlone ==
    [][(vehUpdates' > vehUpdates) =>
          LET up == rpm' * 100 > spec.maxRPM * 85 /\ gear < maxGear
              down == ~up /\ rpm' * 10 < spec.maxRPM * 3 /\ gear > 1
          IN  /\ up => gear' = gear + 1
              /\ down => gear' = gear - 1
              /\ (~up /\ ~down) => gear' = gear]_vars

\* the vehicle moves at full throttle; an update of 1 s will shift down and
\* the update of 1 s after it will shift up again
C25_Witness ==
    /\ oscillatesAt(1000)
    /\ vehUpdates >= 1
    /\ speed > 0
    /\ throttle = 1000
    /\ brake = 0
    /\ gearAfterOne(1000) = gear - 1

----------------------------------------------------------------------------
(* How often dispose() of one light or AI vehicle is called *)

\* TrafficSystem.dispose: light.dispose() for every light of its map, then
\* vehicle.dispose() for every AI vehicle of its map
trafficDisposeCalls ==
    LET held == SelectSeq(LightIds, LAMBDA id : id \in DOMAIN trafficLights)
    IN  [i \in 1..Len(held) |->
            [by |-> "TrafficSystem.dispose", kind |-> "entity", name |-> held[i], obj |-> 1]]
        \o [i \in 1..Len(aiVehicles) |->
            [by |-> "TrafficSystem.dispose", kind |-> "entity",
             name |-> aiEntityId(aiVehicles[i]), obj |-> 1]]

\* every dispose() of a light, a vehicle or another entity that
\* GameWorld.dispose leads to, in order: the registered entities, then what
\* the dispose of the systems calls
worldDisposeCalls ==
    disposeCalls(entities, "dispose")
        \o (IF "TrafficSystem" \in Range(systems) THEN trafficDisposeCalls ELSE <<>>)

\* the harness: the traffic system is registered and initialised, frames
\* run, lights are removed from the registry, and the world is disposed
RemovableLights == {"light_0_ew", "light_4_ns"}

NextDispose ==
    \/ ~disposed /\ registerSystem("TrafficSystem")
    \/ ~disposed /\ "TrafficSystem" \in Range(systems) /\ trafficInit
    \/ \E dt \in TrafficDeltas, side \in SpawnSides, lateral \in SpawnLaterals,
          initialSpeed \in SpawnSpeeds :
          ~disposed /\ trafficFrame(dt, side, lateral, initialSpeed)
    \/ \E id \in RemovableLights : ~disposed /\ removeEntity(id)
    \/ ~disposed /\ dispose

SpecDispose == Init /\ [][NextDispose]_vars

\* C26: over any sequence of addEntity, removeEntity and the final dispose
\* of the world, dispose() of one light, AI vehicle or other entity is
\* called at most once.
C26_DisposedAtMostOnce ==
    [][dispose =>
          /\ \A i, j \in 1..Len(worldDisposeCalls) :
                (worldDisposeCalls[i].name = worldDisposeCalls[j].name) => i = j
          /\ \A i \in 1..Len(worldDisposeCalls) :
                <<worldDisposeCalls[i].name, worldDisposeCalls[i].obj>> \notin disposedObjs]_vars

----------------------------------------------------------------------------
(* update and initSystems on one world: any caller of registerSystem,     *)
(* initSystems and update; the awaited init promises settle between calls *)

NextInitUpdate ==
    \/ \E s \in SystemNames : registerSystem(s)
    \/ pc = "idle" /\ initSystems
    \/ pc = "idle" /\ initResolve
    \/ pc = "idle" /\ initReject
    \/ \E dt \in DeltaTimes : update(dt)
    \/ updateSystem(NoEffect)
    \/ updateEntity(NoEffect)
    \/ updateReturn

SpecInitUpdate == Init /\ [][NextInitUpdate]_vars

\* C27: update of a system is invoked only after the init of that system
\* has completed, for any sequence of registerSystem, initSystems and
\* update calls.
C27_UpdateOnlyAfterInit ==
    \A i \in DOMAIN callLog :
        callLog[i].kind = "system" => callLog[i].name \in initDone

----------------------------------------------------------------------------
(* AI vehicles at a red light *)

\* a light in range of (x, z) and aligned with the heading rot is red
gatedByRed(x, z, rot) ==
    \E k \in DOMAIN LightIds :
        /\ lightInRange(x, z, k)
        /\ lightAligned(rot, k)
        /\ trafficLights[LightIds[k]].state = "red"

----------------------------------------------------------------------------
(* The test map of two failed loadRegion calls *)

\* both calls failed and returned the test map of the same region
sameFallback(c, d) ==
    /\ loadResult[c] = "fallback"
    /\ loadResult[d] = "fallback"
    /\ loadKey[c] = loadKey[d]

\* C29 as claimed: two failed loadRegion calls for the same region return
\* identical map data: the same roads, and the same buildings at the same
\* positions with the same sizes.
C29_FallbackIsDeterministic ==
    \A c, d \in LoadIds : sameFallback(c, d) => testMap[c] = testMap[d]

\* C29: two failed loadRegion calls for the same region return the same
\* region key, the same roads and the same number of buildings with the same
\* ids, types and ground positions (x, z); height, width and depth of a
\* building are random draws of the call, the height within 15 m and 45 m,
\* width and depth within 40 m and 60 m, and the centre lies at half the
\* height.
C29_SameRoadsAndPlaces ==
    \A c, d \in LoadIds :
        sameFallback(c, d) =>
            /\ testMap[c].region = testMap[d].region
            /\ testMap[c].roads = testMap[d].roads
            /\ Len(testMap[c].roads) = 10
            /\ Len(testMap[c].buildings) = 25
            /\ Len(testMap[d].buildings) = 25
            /\ \A k \in 1..25 :
                  LET a == testMap[c].buildings[k]
                      b == testMap[d].buildings[k]
                  IN  /\ a.id = b.id /\ a.type = b.type
                      /\ a.x = b.x /\ a.z = b.z
                      /\ 15000 <= a.height /\ a.height < 45000
                      /\ 40000 <= a.width /\ a.width < 60000
                      /\ 40000 <= a.depth /\ a.depth < 60000
                      /\ a.y = a.height \div 2

\* two failed calls for one region returned test maps whose first building
\* differs in height, width and depth
C29_Witness ==
    \E c, d \in LoadIds :
        /\ c # d
        /\ sameFallback(c, d)
        /\ testMap[c].buildings[1].height # testMap[d].buildings[1].height
        /\ testMap[c].buildings[1].width # testMap[d].buildings[1].width
        /\ testMap[c].buildings[1].depth # testMap[d].buildings[1].depth
        /\ testMap[c].buildings[1].id = "test_building_-4_-4"

----------------------------------------------------------------------------
(* AI vehicles leave the map: the world keeps being updated, one vehicle   *)
(* at a time is live (maxAIVehicles is 1), and frames go on until          *)
(* MaxSpawns vehicles have come and gone                                  *)

MaxCycleTime == 600000       \* no frame of the harness starts once gameTime reached this

cycleFrame ==
    \E dt \in TrafficDeltas, side \in SpawnSides, lateral \in SpawnLaterals,
       initialSpeed \in SpawnSpeeds :
        /\ maxAIVehicles = 1
        /\ gameTime < MaxCycleTime
        /\ trafficStep(dt, side, lateral, initialSpeed)

NextCycle ==
    \/ trafficLights = <<>> /\ maxAIVehicles # 1 /\ setMaxAIVehicles(1)
    \/ trafficInit
    \/ cycleFrame

\* update is called again and again with a positive time step
SpecCycle == Init /\ [][NextCycle]_vars /\ WF_vars(cycleFrame)

\* C30: while the world keeps being updated with a positive time step and
\* the lights keep cycling, every spawned AI vehicle is eventually removed
\* from the live set.
C30_EverySpawnedVehicleLeaves ==
    \A id \in 1..MaxSpawns : (id \in LiveIds) ~> (id \in aiDisposed)

\* the first vehicle stood at a red light, went on when the light had
\* changed, and has left the map 140 s after it was spawned
C30_Witness ==
    /\ aiDisposed = {1}
    /\ nextAiId = 1
    /\ aiVehicles = <<>>
    /\ gameTime >= 150000

============================================================================
